---------------------------- MODULE Spec2Model ----------------------------
(***************************************************************************)
(* A model of loconotion's crawl-and-transform engine, class Parser of     *)
(* src/loconotion/modules/notionparser.py.                                 *)
(*                                                                         *)
(* Strings are sequences of one-character strings, so that str.lower, the  *)
(* substring test `in`, str.split and urllib.parse.urlparse are computed   *)
(* character by character.  A page URL is written from the first character *)
(* of its path on: the scheme and host prefix ("https://<site>/") is the   *)
(* same for every page of a site and is left out.                          *)
(***************************************************************************)
EXTENDS Integers, Sequences, FiniteSets, TLC

VARIABLES
    \* ---- Page Config Resolver (get_page_config, get_page_slug) ----
    config,     \* self.config: [site |-> table, pages |-> key -> table]
    site0,      \* history: the site table as it was configured
    token,      \* the argument of the last call (a URL)
    call,       \* "none" | "get_page_config" | "get_page_slug"
    matching,   \* keys of matching_pages_config computed by the last call
    resolved,   \* the table returned by the last get_page_config
    extension,  \* the `extension` argument of the last get_page_slug
    slug_out,   \* the string returned by the last get_page_slug
    \* ---- Asset Cache (cache_file) ----
    dist,       \* the files of self.dist_folder: a set of names [stem, ext]
    cache_log,  \* history: one entry per cache_file call, in call order
    \* ---- Crawl Orchestrator (run, parse_page, parse_subpages) ----
    site,            \* the hosted site: page path -> the anchors of the rendered page
    single_page,     \* self.args["single_page"]
    processed_pages, \* self.processed_pages: url -> exported file name
    stack,           \* the active parse_subpages loops: [url, subpages, i]
    pending,         \* the url parse_page has just been called with, or NoUrl
    pc,              \* "idle" | "running" | "done" | "aborted"
    starts,          \* history: the urls parse_page was started with, in order
    discovered,      \* history: every url find_subpages has returned in a batch
    timed_out,       \* history: the url whose load timed out, or NoUrl
    \* ---- Page pipeline of parse_page, run after run on one output folder ----
    page,       \* the rendered page: its images, toggle blocks, injected tags
    soup,       \* the document being transformed
    step,       \* the function parse_page calls next, or "idle" between runs
    exports,    \* history: per run, the html written and the calls made so far
    \* ---- Link discovery on one page (find_subpages) ----
    cur_url,    \* the url of the page being transformed, or NoUrl
    a_tags0,    \* history: the a tags of the soup as the page was rendered
    a_tags,     \* the a tags of the soup
    batch,      \* the subpages list find_subpages returned
    link_step,  \* "idle" | "found" | "exported"
    \* ---- The exported html files (export_parsed_page) ----
    html_written, \* file name -> the url of the page whose html the file holds
    collisions,   \* history: the duplicate slugs reported, [url, file]
    \* ---- One injected tag (inject_custom_tags) ----
    element,      \* the configured element: its attributes still to be handled
    element0,     \* history: the element as configured, a list of [attr, value]
    injected_tag, \* the tag built: its attributes, its text, whether appended
    \* ---- The readiness wait (notion_page_loaded) ----
    dom,          \* the counts of the elements the readiness predicate looks at
    polled,       \* what the last poll returned for this dom: "none", "True", "False"
    \* ---- Toggle expansion (open_toggle_blocks) ----
    toggle_dom,     \* the toggle blocks of the page: state, arrow, kind, parent,
                    \* and the number of the page among those rendered
    opened_toggles, \* the list opened_toggles
    toggle_loop,    \* the pass under way: toggle_blocks, position, pc
    clicks,         \* history: the clicks, [block, found, wait, logged]
    \* ---- The waits on an external party ----
    wait_op,        \* the wait under way: kind, state, elapsed, bounded, limit
    wait_log,       \* history: how the waits ended, [kind, outcome]
    \* ---- The meta tags of one page (clean_up, set_custom_meta_tags) ----
    metas,          \* the meta tags of the soup, in document order
    metas0,         \* history: the meta tags of the rendered page
    meta_step       \* "idle", "cleaned", "set"

cfg_vars == <<config, site0, token, call, matching, resolved, extension, slug_out>>
cache_vars == <<dist, cache_log>>
crawl_vars ==
    <<site, single_page, processed_pages, stack, pending, pc, starts, discovered,
      timed_out>>

page_vars == <<page, soup, step, exports>>

link_vars == <<cur_url, a_tags0, a_tags, batch, link_step>>

export_vars == <<html_written, collisions>>

inject_vars == <<element, element0, injected_tag>>

ready_vars == <<dom, polled>>

toggle_vars == <<toggle_dom, opened_toggles, toggle_loop, clicks>>

bound_vars == <<wait_op, wait_log>>

meta_vars == <<metas, metas0, meta_step>>

more_vars == <<bound_vars, meta_vars>>

\* the variables of the readiness wait, of toggle expansion and of the rest
wait_vars == <<ready_vars, toggle_vars, more_vars>>

vars ==
    <<cfg_vars, cache_vars, crawl_vars, page_vars, link_vars, export_vars,
      inject_vars, wait_vars>>

-----------------------------------------------------------------------------
(* Strings *)

\* str.lower on one character of the alphabets used below
LowerChar(c) == IF c = "A" THEN "a" ELSE c

\* str.lower
Lower(s) == [i \in 1..Len(s) |-> LowerChar(s[i])]

\* Python's `k in t` on strings
Contains(t, k) ==
    \E i \in 0..(Len(t) - Len(k)) : SubSeq(t, i + 1, i + Len(k)) = k

\* all strings over alphabet `alpha` of length lo..hi
Strings(alpha, lo, hi) == UNION {[1..n -> alpha] : n \in lo..hi}

\* the position of the first occurrence of character c in s, 0 when absent
FirstIndex(s, c) ==
    IF \E i \in 1..Len(s) : s[i] = c
    THEN CHOOSE i \in 1..Len(s) : s[i] = c /\ \A j \in 1..(i - 1) : s[j] # c
    ELSE 0

\* the position of the last occurrence of character c in s, 0 when absent
LastIndex(s, c) ==
    IF \E i \in 1..Len(s) : s[i] = c
    THEN CHOOSE i \in 1..Len(s) : s[i] = c /\ \A j \in (i + 1)..Len(s) : s[j] # c
    ELSE 0

RECURSIVE LStrip(_, _)
\* str.lstrip(c)
LStrip(s, c) == IF s # <<>> /\ Head(s) = c THEN LStrip(Tail(s), c) ELSE s

RECURSIVE RStrip(_, _)
\* str.rstrip(c)
RStrip(s, c) ==
    IF s # <<>> /\ s[Len(s)] = c THEN RStrip(SubSeq(s, 1, Len(s) - 1), c) ELSE s

\* str.strip(c)
Strip(s, c) == RStrip(LStrip(s, c), c)

DotHtml == <<".", "h", "t", "m", "l">>

-----------------------------------------------------------------------------
(* Tables (Python dicts) *)

EmptyTable == [k \in {} |-> <<>>]

\* {**a, **b}
Merge(a, b) ==
    [k \in (DOMAIN a) \cup (DOMAIN b) |-> IF k \in DOMAIN b THEN b[k] ELSE a[k]]

\* del d[key]
Without(d, key) == [k \in (DOMAIN d) \ {key} |-> d[k]]

\* Python truthiness of a string value (None is written as the empty string)
Truthy(v) == v # <<>>

\* dict.get(key, None)
Get(d, key) == IF key \in DOMAIN d THEN d[key] ELSE <<>>

-----------------------------------------------------------------------------
(* Page Config Resolver *)

\* lines 89-97: the site table, with a truthy "slug" deleted from it
SiteConfig(cfg) ==
    IF Truthy(Get(cfg.site, "slug")) THEN Without(cfg.site, "slug") ELSE cfg.site

MatchLowerUrl(key, tok) == Contains(Lower(tok), Lower(key))

\* line 102: `key.lower() in token`
KeyMatches(key, tok) == Contains(tok, Lower(key))

\* lines 100-103: the keys of the tables collected in matching_pages_config
MatchingKeys(cfg, tok) == {key \in DOMAIN cfg.pages : KeyMatches(key, tok)}

GetPageConfigMergeAny(cfg, tok) ==
    LET site_config == SiteConfig(cfg)
        m == MatchingKeys(cfg, tok)
    IN  IF m # {} THEN Merge(site_config, cfg.pages[CHOOSE k \in m : TRUE])
        ELSE site_config

GetPageConfigSiteWins(cfg, tok) ==
    LET site_config == SiteConfig(cfg)
        m == MatchingKeys(cfg, tok)
    IN  IF Cardinality(m) = 1
        THEN Merge(cfg.pages[CHOOSE k \in m : TRUE], site_config)
        ELSE site_config

\* lines 87-125: the table get_page_config returns
GetPageConfig(cfg, tok) ==
    LET site_config == SiteConfig(cfg)
        m == MatchingKeys(cfg, tok)
    IN  IF m # {}
        THEN IF Cardinality(m) > 1
             THEN site_config
             ELSE Merge(site_config, cfg.pages[CHOOSE k \in m : TRUE])
        ELSE site_config

\* line 97: `del site_config["slug"]` acts on the dict held by self.config
ConfigAfterCall(cfg) == [cfg EXCEPT !.site = SiteConfig(cfg)]

\* urllib.parse.urlparse(url).path: what precedes the query and the fragment
UrlPath(url) ==
    LET q == FirstIndex(url, "?")
        noquery == IF q = 0 THEN url ELSE SubSeq(url, 1, q - 1)
        f == FirstIndex(noquery, "#")
    IN  IF f = 0 THEN noquery ELSE SubSeq(noquery, 1, f - 1)

DerivedSlugFirstDash(url) ==
    LET path == Strip(UrlPath(url), "/")
    IN  IF Contains(path, <<"-">>)
        THEN Lower(SubSeq(path, 1, FirstIndex(path, "-") - 1))
        ELSE path

\* lines 135-144: the slug derived from the URL when no custom slug is set
DerivedSlug(url) ==
    LET path == Strip(UrlPath(url), "/")
    IN  IF Contains(path, <<"-">>)
        \* "-".join(path.split("-")[:-1]).lower(): cut at the last dash
        THEN Lower(SubSeq(path, 1, LastIndex(path, "-") - 1))
        ELSE IF Contains(path, <<"?">>)
        THEN Lower(SubSeq(path, 1, FirstIndex(path, "?") - 1))
        ELSE path

\* lines 127-144
GetPageSlug(cfg, url, ext) ==
    LET custom_slug == Get(GetPageConfig(cfg, url), "slug")
        suffix == IF ext THEN DotHtml ELSE <<>>
    IN  IF Truthy(custom_slug)
        THEN Strip(custom_slug, "/") \o suffix
        ELSE DerivedSlug(url) \o suffix

-----------------------------------------------------------------------------
(* Asset Cache *)

(***************************************************************************)
(* A reference is written as urlparse and pathlib see it:                  *)
(*   scheme, netloc  urlparse(url).scheme and .netloc ("" for a local path)*)
(*   path            urlparse(url).path without its suffix                 *)
(*   suffix          Path(path).suffix, "" when the path has none          *)
(*   query           the query string, a sequence of [name, value] pairs   *)
(* A file name is [stem, ext]: ext is "" or starts with a dot.             *)
(***************************************************************************)

\* filename=None
NoName == [stem |-> <<"none", <<>> >>, ext |-> ""]

\* hashlib.sha1(...).hexdigest(): a hex string without a dot, taken to be
\* free of collisions
Sha1(text) == <<"sha1", text>>

\* urllib.parse.parse_qs(query)[name]: the values given to `name`, in order;
\* parse_qs drops the pairs with a blank value (keep_blank_values=False)
QueryValues(query, name) ==
    LET kept == SelectSeq(query, LAMBDA p : p.name = name /\ p.value # "")
    IN  [i \in 1..Len(kept) |-> kept[i].value]

CacheNameNoWidth(ref, filename) ==
    IF filename # NoName THEN filename
    ELSE [stem |-> Sha1(<<ref.netloc, ref.path, ref.suffix, <<>> >>), ext |-> ""]

\* lines 152-160: the name of the cached file, before its extension is known
CacheName(ref, filename) ==
    IF filename # NoName THEN filename
    ELSE LET width == QueryValues(ref.query, "width")
             queryless_url ==
                 <<ref.netloc, ref.path, ref.suffix,
                   IF width # <<>> THEN <<"?width=", width>> ELSE <<>> >>
         IN  [stem |-> Sha1(queryless_url), ext |-> ""]

\* line 164: glob.glob(str(destination.with_suffix(".*"))): the files named
\* <stem>.<anything>
GlobMatches(files, name) == {f \in files : f.stem = name.stem /\ f.ext # ""}

\* line 167: "http" in urlparse(url).scheme
IsNetwork(ref) == ref.scheme \in {"http", "https"}

\* lines 186-189: a suffix that carries a percent-encoded query is cut at "%3f"
CutEscapedQuery(suffix) == IF suffix = ".png%3Fx" THEN ".png" ELSE suffix

\* lines 180-191: the file a download is written to; resp.ctype is what
\* mimetypes.guess_extension makes of the content-type header ("" for None)
DownloadTarget(ref, name, resp) ==
    IF name.ext = ""
    THEN LET file_extension ==
                 IF ref.suffix = "" THEN resp.ctype ELSE CutEscapedQuery(ref.suffix)
         IN  IF file_extension # "" THEN [name EXCEPT !.ext = file_extension]
             ELSE name
    ELSE name

\* line 205: destination.with_suffix(Path(url).suffix)
CopyTarget(ref, name) == [name EXCEPT !.ext = ref.suffix]

\* the local paths for which Path(url).is_file() holds
LocalFiles == {"bundles/loconotion", "tests/test_file", "tests/noext"}

NoFile == [stem |-> <<"none", <<>> >>, ext |-> ""]

\* what cache_file returns: a path relative to dist_folder, the url it was
\* given, or None
RetPath(f) == [kind |-> "path", file |-> f]
RetUrl == [kind |-> "url", file |-> NoFile]
RetNone == [kind |-> "none", file |-> NoFile]

\* cache_file(url, filename), lines 146-212.  resp is the outcome of
\* session.get: resp.ok = FALSE when it raises.  The log entry records the
\* call, what it returned and whether it fetched or copied.
cache_file(ref, filename, resp) ==
    LET name == CacheName(ref, filename)
        matching_file == GlobMatches(dist, name)
        Log(ret, io) ==
            cache_log' = Append(cache_log,
                [ref |-> ref, filename |-> filename, name |-> name,
                 ret |-> ret, io |-> io])
    IN  IF matching_file = {}
        THEN IF IsNetwork(ref)
             THEN IF resp.ok
                  THEN LET destination == DownloadTarget(ref, name, resp)
                       IN  /\ dist' = dist \cup {destination}
                           /\ Log(RetPath(destination), "get")
                  ELSE /\ dist' = dist
                       /\ Log(RetUrl, "get")
             ELSE IF ref.path \in LocalFiles
                  THEN LET destination == CopyTarget(ref, name)
                       IN  /\ dist' = dist \cup {destination}
                           /\ Log(RetPath(destination), "copy")
                  ELSE /\ dist' = dist
                       /\ Log(RetNone, "no")
        ELSE \E f \in matching_file :
                /\ dist' = dist
                /\ Log(RetPath(f), "no")

-----------------------------------------------------------------------------
(* Inputs of the Page Config Resolver *)

MaxKeyLen == 2
MaxUrlLen == 3

KeyAlphabet == {"A", "a"}
UrlAlphabet == {"A", "a", "b"}

\* the keys of the [pages] tables of a configuration file
PageKeys == Strings(KeyAlphabet, 1, MaxKeyLen)

\* the URLs get_page_config is called with
ConfigUrls == Strings(UrlAlphabet, 1, MaxUrlLen)

\* the tables over the keys "slug" and "fonts" with values from the given sets
Tables(slugs, fonts) ==
    {Merge(a, b) :
        a \in {EmptyTable} \cup {[k \in {"slug"} |-> v] : v \in slugs},
        b \in {EmptyTable} \cup {[k \in {"fonts"} |-> v] : v \in fonts}}

\* [site]: a slug there is a configuration error the code repairs
SiteTables == Tables({<<>>, <<"s">>}, {<<"X">>})

\* [pages.<key>]
PageTables == Tables({<<"p">>}, {<<"Y">>})

\* [pages]: at most two tables
PagesConfigs ==
    UNION {[S -> PageTables] : S \in {T \in SUBSET PageKeys : Cardinality(T) <= 2}}

Configs == [site : SiteTables, pages : PagesConfigs]

NoTable == [k \in {"none"} |-> <<>>]

ConfigIdle ==
    /\ token = <<>>
    /\ call = "none"
    /\ matching = {}
    /\ resolved = NoTable
    /\ extension = FALSE
    /\ slug_out = <<>>

\* an empty output folder and no call yet
CacheIdle ==
    /\ dist = {}
    /\ cache_log = <<>>

\* no url
NoUrl == <<>>

\* no run
CrawlIdle ==
    /\ site = EmptyTable
    /\ single_page = FALSE
    /\ processed_pages = EmptyTable
    /\ stack = <<>>
    /\ pending = NoUrl
    /\ pc = "idle"
    /\ starts = <<>>
    /\ discovered = {}
    /\ timed_out = NoUrl

\* a document with nothing in it
EmptySoup == [imgs |-> <<>>, css |-> <<>>, fonts |-> <<>>, toggles |-> <<>>,
              inject |-> <<>>]

\* no page in the pipeline
PageIdle ==
    /\ page = [imgs |-> <<>>, css |-> <<>>, toggles |-> 0, inject |-> <<>>]
    /\ soup = EmptySoup
    /\ step = "idle"
    /\ exports = <<>>

\* no page in link discovery
LinkIdle ==
    /\ cur_url = <<>>
    /\ a_tags0 = <<>>
    /\ a_tags = <<>>
    /\ batch = <<>>
    /\ link_step = "idle"

\* no html file written
ExportIdle ==
    /\ html_written = EmptyTable
    /\ collisions = <<>>

\* a tag with no attribute and no text, not appended to the document
NewTag == [attrs |-> EmptyTable, string |-> "", appended |-> FALSE]

\* no element being injected
InjectIdle ==
    /\ element = <<>>
    /\ element0 = <<>>
    /\ injected_tag = NewTag

\* a document with no element the readiness predicate looks at
EmptyDom == [presence |-> 0, unknown |-> 0, spinners |-> 0, scrollers |-> <<>>]

\* no page loading
ReadyIdle ==
    /\ dom = EmptyDom
    /\ polled = "none"

\* a page without toggle blocks, no pass of open_toggle_blocks under way
ToggleIdle ==
    /\ toggle_dom = [state |-> <<>>, arrow |-> <<>>, kind |-> <<>>, parent |-> <<>>,
                     page |-> 1]
    /\ opened_toggles = <<>>
    /\ toggle_loop = [toggle_blocks |-> <<>>, i |-> 1, pc |-> "idle"]
    /\ clicks = <<>>

\* no wait under way
NoWait == [kind |-> "none", state |-> "idle", elapsed |-> 0, bounded |-> FALSE,
           limit |-> 0]

BoundIdle ==
    /\ wait_op = NoWait
    /\ wait_log = <<>>

MetaIdle ==
    /\ metas = <<>>
    /\ metas0 = <<>>
    /\ meta_step = "idle"

MoreIdle == BoundIdle /\ MetaIdle

WaitIdle == ReadyIdle /\ ToggleIdle /\ MoreIdle

InitConfig ==
    /\ config \in Configs
    /\ site0 = config.site
    /\ ConfigIdle
    /\ CacheIdle
    /\ CrawlIdle
    /\ PageIdle
    /\ ExportIdle
    /\ InjectIdle
    /\ WaitIdle
    /\ LinkIdle

\* get_page_config(token), lines 87-125
get_page_config(tok) ==
    /\ call = "none"
    /\ token' = tok
    /\ call' = "get_page_config"
    /\ matching' = MatchingKeys(config, tok)
    /\ resolved' = GetPageConfig(config, tok)
    /\ config' = ConfigAfterCall(config)
    /\ UNCHANGED <<site0, extension, slug_out>>
    /\ UNCHANGED <<cache_vars, crawl_vars, page_vars, link_vars, export_vars, inject_vars, wait_vars>>

NextConfig == call = "none" /\ \E tok \in ConfigUrls : get_page_config(tok)

SpecConfig == InitConfig /\ [][NextConfig]_vars

\* the keys of the site table that survive lines 92-97
SiteKept == (DOMAIN site0) \ (IF Truthy(Get(site0, "slug")) THEN {"slug"} ELSE {})

\* the per-page table of the single match
MatchedTable == config.pages[CHOOSE k \in matching : TRUE]

\* C7 as stated: with exactly one matching per-page table the result is the
\* shallow merge of that table over the site table (every page key has the
\* page's value, every key only in the site table keeps the site's value);
\* with no matching table the result is the site table unchanged.
C7_MergeKeepsEverySiteKey ==
    call = "get_page_config" =>
        /\ Cardinality(matching) = 1 =>
              /\ \A k \in DOMAIN MatchedTable :
                    k \in DOMAIN resolved /\ resolved[k] = MatchedTable[k]
              /\ \A k \in (DOMAIN site0) \ (DOMAIN MatchedTable) :
                    k \in DOMAIN resolved /\ resolved[k] = site0[k]
        /\ matching = {} => resolved = site0

\* C7 amended: the same, except that a non-empty "slug" of the site table is
\* deleted: with one match the result is the shallow merge of the page table
\* over the site table without that slug, with no match it is the site table
\* without that slug.
C7_ShallowMerge ==
    call = "get_page_config" =>
        /\ Cardinality(matching) = 1 =>
              /\ DOMAIN resolved = SiteKept \cup DOMAIN MatchedTable
              /\ \A k \in DOMAIN MatchedTable : resolved[k] = MatchedTable[k]
              /\ \A k \in SiteKept \ (DOMAIN MatchedTable) : resolved[k] = site0[k]
        /\ matching = {} => resolved = [k \in SiteKept |-> site0[k]]

\* a page-level font Y overrides the site-level font X, next to a site key
\* the page table does not set
C7_Witness ==
    /\ call = "get_page_config"
    /\ Cardinality(matching) = 1
    /\ Get(site0, "fonts") = <<"X">>
    /\ Get(MatchedTable, "fonts") = <<"Y">>
    /\ "slug" \in (DOMAIN site0) \ (DOMAIN MatchedTable)
    /\ resolved["fonts"] = <<"Y">>

\* C8: when more than one per-page key matches the URL, the result holds site
\* values only: every key of it is a site key with the site's value, and no
\* value of a matching per-page table appears in it.
C8_AmbiguousFallsBackToSite ==
    (call = "get_page_config" /\ Cardinality(matching) > 1) =>
        /\ \A k \in DOMAIN resolved : k \in DOMAIN site0 /\ resolved[k] = site0[k]
        /\ \A m \in matching : \A k \in DOMAIN config.pages[m] :
              k \notin DOMAIN resolved \/ resolved[k] # config.pages[m][k]

\* two tables match, both set a font, the site sets one too
C8_Witness ==
    /\ call = "get_page_config"
    /\ Cardinality(matching) = 2
    /\ \A m \in matching : DOMAIN config.pages[m] = {"slug", "fonts"}
    /\ "fonts" \in DOMAIN site0
    /\ resolved["fonts"] = <<"X">>

\* C9 as stated: a per-page table is selected iff lowercase(key) occurs in
\* lowercase(URL).
C9_CaseInsensitiveMatch ==
    call = "get_page_config" =>
        matching = {k \in DOMAIN config.pages : MatchLowerUrl(k, token)}

-----------------------------------------------------------------------------
(* get_page_slug *)

MaxSlugUrlLen == 5

SlugAlphabet == {"A", "a", "-", "?"}

\* the URLs get_page_slug is called with
SlugUrls == Strings(SlugAlphabet, 1, MaxSlugUrlLen)

\* configurations with no per-page table, or one that sets a custom slug
SlugConfigs ==
    [site : SiteTables,
     pages : {EmptyTable}
             \cup {[k \in {<<"a">>} |-> [j \in {"slug"} |-> v]] :
                      v \in {<<"p">>, <<"/", "p", "/">>}}]

InitSlug ==
    /\ config \in SlugConfigs
    /\ site0 = config.site
    /\ ConfigIdle
    /\ CacheIdle
    /\ CrawlIdle
    /\ PageIdle
    /\ ExportIdle
    /\ InjectIdle
    /\ WaitIdle
    /\ LinkIdle

\* get_page_slug(url, extension), lines 127-144
get_page_slug(url, ext) ==
    /\ call = "none"
    /\ token' = url
    /\ extension' = ext
    /\ call' = "get_page_slug"
    /\ matching' = MatchingKeys(config, url)
    /\ resolved' = GetPageConfig(config, url)
    /\ slug_out' = GetPageSlug(config, url, ext)
    /\ config' = ConfigAfterCall(config)
    /\ UNCHANGED site0
    /\ UNCHANGED <<cache_vars, crawl_vars, page_vars, link_vars, export_vars, inject_vars, wait_vars>>

NextSlug == call = "none" /\ \E url \in SlugUrls, ext \in BOOLEAN : get_page_slug(url, ext)

SpecSlug == InitSlug /\ [][NextSlug]_vars

\* C10 as stated: with no custom slug, a URL that is a bare identifier (no
\* dash) followed by a query string gives the identifier in lower case, plus
\* ".html" when the extension is requested.
C10_BareIdentifierLowercased ==
    LET q == FirstIndex(token, "?")
        ident == SubSeq(token, 1, q - 1)
    IN  (/\ call = "get_page_slug"
         /\ ~Truthy(Get(resolved, "slug"))
         /\ q > 1 /\ q < Len(token)
         /\ ~Contains(ident, <<"-">>))
        => slug_out = Lower(ident) \o (IF extension THEN DotHtml ELSE <<>>)

\* C11: with no custom slug, a URL whose path is title tokens joined by
\* dashes, a dash and an identifier token gives the title, whole and in lower
\* case, plus ".html" when the extension is requested: whatever way the path
\* is written as <title>-<identifier> with a dash-free identifier.
C11_TitleKeptIdentifierDropped ==
    (call = "get_page_slug" /\ ~Truthy(Get(resolved, "slug"))
        /\ ~Contains(token, <<"?">>))
    => \A d \in 2..(Len(token) - 1) :
          LET title == SubSeq(token, 1, d - 1)
              ident == SubSeq(token, d + 1, Len(token))
          IN  (token[d] = "-" /\ ~Contains(ident, <<"-">>))
              => slug_out = Lower(title) \o (IF extension THEN DotHtml ELSE <<>>)

\* the path A-a-a: two title tokens, one of them in upper case
C11_Witness ==
    /\ call = "get_page_slug"
    /\ ~Truthy(Get(resolved, "slug"))
    /\ token = <<"A", "-", "a", "-", "a">>
    /\ extension
    /\ slug_out = <<"a", "-", "a">> \o DotHtml

-----------------------------------------------------------------------------
(* Inputs of the Asset Cache *)

MaxCalls == 2
MaxParams == 1

\* an image of a page
ImgRef ==
    [scheme |-> "https", netloc |-> "www.notion.so", path |-> "/image/a",
     suffix |-> ".png", query |-> <<>>]

\* an image whose suffix carries a percent-encoded query
EscapedRef == [ImgRef EXCEPT !.path = "/image/b", !.suffix = ".png%3Fx"]

\* a script whose URL path has no suffix (tests/test_inject_custom_tags.py:36)
JsRef ==
    [scheme |-> "https", netloc |-> "www.googletagmanager.com",
     path |-> "/gtag/js", suffix |-> "", query |-> <<>>]

\* a font of a stylesheet, cached under its own file name (lines 509-511)
FontRef == [ImgRef EXCEPT !.path = "/fonts/inter", !.suffix = ".woff"]
FontName == [stem |-> <<"name", <<"inter">> >>, ext |-> ".woff"]

\* local files: the engine's bundle, an injected file without a suffix, and a
\* path that names no file
BundleRef ==
    [scheme |-> "", netloc |-> "", path |-> "bundles/loconotion",
     suffix |-> ".css", query |-> <<>>]
NoExtRef == [BundleRef EXCEPT !.path = "tests/noext", !.suffix = ""]
MissingRef == [BundleRef EXCEPT !.path = "tests/missing", !.suffix = ".txt"]

OtherParam == [name |-> "v", value |-> "1"]

\* the (url, filename) arguments of the calls
CacheCalls ==
    {<<r, NoName>> :
        r \in {ImgRef, [ImgRef EXCEPT !.query = <<OtherParam>>], EscapedRef,
               JsRef, BundleRef, NoExtRef, MissingRef}}
    \cup {<<FontRef, FontName>>}

\* session.get raises (ok = FALSE) or answers with a content type
Responses == [ok : BOOLEAN, ctype : {"", ".js"}]

InitCache ==
    /\ config = [site |-> EmptyTable, pages |-> EmptyTable]
    /\ site0 = config.site
    /\ ConfigIdle
    /\ CacheIdle
    /\ CrawlIdle
    /\ PageIdle
    /\ ExportIdle
    /\ InjectIdle
    /\ WaitIdle
    /\ LinkIdle

\* one call of cache_file
CacheCall ==
    /\ Len(cache_log) < MaxCalls
    /\ \E c \in CacheCalls, resp \in Responses : cache_file(c[1], c[2], resp)
    /\ UNCHANGED <<cfg_vars, crawl_vars, page_vars, link_vars, export_vars, inject_vars, wait_vars>>

NextCache == CacheCall

SpecCache == InitCache /\ [][NextCache]_vars

\* C2 as stated: of the calls made with one key, only the first fetches or
\* copies; every later call does no I/O and returns the path the first one
\* returned.
C2_OneFetchPerKey ==
    \A i, j \in 1..Len(cache_log) :
        (i < j /\ cache_log[i].name = cache_log[j].name) =>
            /\ cache_log[j].io = "no"
            /\ cache_log[i].ret.kind = "path" => cache_log[j].ret = cache_log[i].ret

\* C17 as stated: a call for a reference that has no cached file, no network
\* scheme and names no local file returns the reference it was given.
C17_UnresolvedReturnsReference ==
    \A k \in 1..Len(cache_log) :
        (/\ ~IsNetwork(cache_log[k].ref)
         /\ cache_log[k].ref.path \notin LocalFiles
         /\ cache_log[k].ret.kind # "path")
        => cache_log[k].ret = RetUrl

-----------------------------------------------------------------------------
(* Cache keys of references that differ in their query *)

ParamNames == {"width", "v"}
ParamValues == {"", "1", "2"}

\* the query strings: up to MaxParams name=value pairs
Queries == UNION {[1..n -> [name : ParamNames, value : ParamValues]] : n \in 0..MaxParams}

\* two calls with no explicit name, on references with the same host and path
KeyCall ==
    /\ Len(cache_log) < 2
    /\ \E r \in {ImgRef, JsRef}, q \in Queries, resp \in Responses :
          /\ cache_log # <<>> =>
                /\ r.netloc = cache_log[1].ref.netloc
                /\ r.path = cache_log[1].ref.path
          /\ cache_file([r EXCEPT !.query = q], NoName, resp)
    /\ UNCHANGED <<cfg_vars, crawl_vars, page_vars, link_vars, export_vars, inject_vars, wait_vars>>

NextKey == KeyCall

SpecKey == InitCache /\ [][NextKey]_vars

\* the `width` parameters of a query as written, blank values included
WidthParams(query) == SelectSeq(query, LAMBDA p : p.name = "width")

\* both calls of the pair were made and both wrote their file
BothFetched ==
    /\ Len(cache_log) = 2
    /\ cache_log[1].ret.kind = "path"
    /\ cache_log[2].ret.kind = "path"

\* C6 as stated: with the same host and path, references whose `width`
\* parameters differ (in value or in presence) get distinct keys and two
\* entries; references whose `width` parameters agree get the same key and one
\* entry.
C6_WidthDistinguishes ==
    BothFetched =>
        LET a == cache_log[1]
            b == cache_log[2]
        IN  IF WidthParams(a.ref.query) # WidthParams(b.ref.query)
            THEN a.name # b.name /\ Cardinality(dist) = 2
            ELSE a.name = b.name /\ Cardinality(dist) = 1

\* What holds of C6: with the same host and path, the keys are distinct, and
\* the entries two, exactly when the lists of non-blank `width` values differ
\* (a blank `width` counts as absent); otherwise the key is the same, every
\* file written has it as its stem, and there is one entry only when both
\* calls resolved the same extension.
C6_NonBlankWidthDistinguishes ==
    BothFetched =>
        LET a == cache_log[1]
            b == cache_log[2]
        IN  IF QueryValues(a.ref.query, "width") # QueryValues(b.ref.query, "width")
            THEN /\ a.name # b.name
                 /\ a.ret.file # b.ret.file
                 /\ dist = {a.ret.file, b.ret.file}
                 /\ Cardinality(dist) = 2
            ELSE /\ a.name = b.name
                 /\ \A f \in dist : f.stem = a.name.stem
                 /\ a.ret.file.ext = b.ret.file.ext => Cardinality(dist) = 1

\* the two cases of the claim: widths 1 and 2 give two files, and a
\* difference in another parameter gives one
C6_Witness ==
    /\ BothFetched
    /\ \/ /\ cache_log[1].ref.query = <<[name |-> "width", value |-> "1"]>>
          /\ cache_log[2].ref.query = <<[name |-> "width", value |-> "2"]>>
          /\ Cardinality(dist) = 2
       \/ /\ cache_log[1].ref.query = <<[name |-> "v", value |-> "1"]>>
          /\ cache_log[2].ref.query = <<[name |-> "v", value |-> "2"]>>
          /\ Cardinality(dist) = 1

-----------------------------------------------------------------------------
(* Crawl Orchestrator *)

MaxPages == 2
MaxLinks == 3

PageNames == <<"a", "b", "c", "d">>

\* the paths of the pages of the site
Pages == {<<PageNames[n]>> : n \in 1..MaxPages}

\* self.index_url, self.starting_url (lines 50, 85)
index_url == <<PageNames[1]>>

\* what an anchor of a rendered page can point at: a page, with or without a
\* query string
Hrefs == Pages \cup {p \o <<"?", "v">> : p \in Pages}

\* an anchor: its target under the site's domain, and whether it lies inside
\* a div of class notion-scroller
Anchors == [href : Hrefs, scroller : {TRUE}]

\* the anchors of a rendered page, at most n of them
AnchorLists(n) == UNION {[1..k -> Anchors] : k \in 0..n}

\* the same lists, tabulated by the number of anchors still to render
AnchorListsUpTo == [n \in 0..MaxLinks |-> AnchorLists(n)]

\* the number of anchors of the pages rendered so far
RECURSIVE LinkCount(_)
LinkCount(s) ==
    IF DOMAIN s = {} THEN 0
    ELSE LET p == CHOOSE q \in DOMAIN s : TRUE
         IN  Len(s[p]) + LinkCount(Without(s, p))

\* the url stripped of its query string and fragment: the canonical url
Canonical(url) == UrlPath(url)

\* the elements of a list
Range(seq) == {seq[k] : k \in 1..Len(seq)}

AddSubpageAlways(subpages, a, processed, parse_links) ==
    IF parse_links \/ ~a.scroller
    THEN IF Contains(a.href, <<"#">>)
         THEN Append(subpages, SubSeq(a.href, 1, FirstIndex(a.href, "#") - 1))
         ELSE Append(subpages, a.href)
    ELSE subpages

AddSubpageFlagOnly(subpages, a, processed, parse_links) ==
    IF parse_links
    THEN IF Contains(a.href, <<"#">>)
         THEN LET sub_page_href == SubSeq(a.href, 1, FirstIndex(a.href, "#") - 1)
              IN  IF sub_page_href \in processed \/ sub_page_href \in Range(subpages)
                  THEN subpages
                  ELSE Append(subpages, sub_page_href)
         ELSE Append(subpages, a.href)
    ELSE subpages

\* lines 682-717, one anchor: the batch after the anchor is handled.
\* parse_links is `not get_page_config(url).get("no-links", False)`.
AddSubpage(subpages, a, processed, parse_links) ==
    IF parse_links \/ ~a.scroller
    THEN IF Contains(a.href, <<"#">>)
         THEN LET sub_page_href == SubSeq(a.href, 1, FirstIndex(a.href, "#") - 1)
              IN  IF sub_page_href \in processed \/ sub_page_href \in Range(subpages)
                  THEN subpages
                  ELSE Append(subpages, sub_page_href)
         ELSE Append(subpages, a.href)
    ELSE subpages

RECURSIVE FindSubpagesFrom(_, _, _, _)
FindSubpagesFrom(subpages, anchors, processed, parse_links) ==
    IF anchors = <<>> THEN subpages
    ELSE FindSubpagesFrom(AddSubpage(subpages, Head(anchors), processed, parse_links),
                          Tail(anchors), processed, parse_links)

\* find_subpages, lines 678-731: the batch of sub-pages found on a page
FindSubpages(anchors, processed, parse_links) ==
    FindSubpagesFrom(<<>>, anchors, processed, parse_links)

CollidesNever(processed, html_file) == FALSE

\* line 737: `if html_file in self.processed_pages.values()`
Collides(processed, html_file) ==
    \E u \in DOMAIN processed : processed[u] = html_file

\* lines 737-742: the errors logged, after the export of url to html_file
Reported(log, processed, url, html_file) ==
    IF Collides(processed, html_file)
    THEN Append(log, [url |-> url, file |-> html_file])
    ELSE log

\* lines 744-745: the html files, after url was written to html_file
Written(files, url, html_file) == Merge(files, [f \in {html_file} |-> url])

\* line 736: the file a page is exported to
HtmlFile(cfg, url) ==
    IF url # index_url THEN GetPageSlug(cfg, url, TRUE)
    ELSE <<"i", "n", "d", "e", "x">> \o DotHtml

ShouldParseAlways(sub_page, processed) == TRUE

\* line 754: `if sub_page not in self.processed_pages.keys()`
ShouldParse(sub_page, processed) == sub_page \notin processed

SubPageFromEnd(frame) == frame.subpages[Len(frame.subpages) - frame.i + 1]

\* line 753: `for sub_page in subpages`, the sub-page of the turn under way
SubPageAt(frame) == frame.subpages[frame.i]

EntersLoopAnyMode(subpages, single) == subpages # <<>>

\* line 750: `if subpages and not self.args.get("single_page", False)`
EntersLoop(subpages, single) == subpages # <<>> /\ ~single

\* the deepest recursion a crawl of the site can need, plus one
MaxDepth == 2 * MaxPages + 1

Init ==
    /\ config = [site |-> EmptyTable, pages |-> EmptyTable]
    /\ site0 = config.site
    /\ ConfigIdle
    /\ CacheIdle
    /\ site = EmptyTable
    /\ single_page \in BOOLEAN
    /\ processed_pages = EmptyTable
    /\ stack = <<>>
    /\ pending = NoUrl
    /\ pc = "idle"
    /\ starts = <<>>
    /\ discovered = {}
    /\ timed_out = NoUrl
    /\ PageIdle
    /\ ExportIdle
    /\ InjectIdle
    /\ WaitIdle
    /\ LinkIdle

\* run, lines 761-764: empty the registry and call parse_page on the entry
Run ==
    /\ pc = "idle"
    /\ pc' = "running"
    /\ processed_pages' = EmptyTable
    /\ pending' = index_url
    /\ UNCHANGED <<site, single_page, stack, starts, discovered, timed_out>>
    /\ UNCHANGED <<cfg_vars, cache_vars, page_vars, link_vars, export_vars, inject_vars, wait_vars>>

\* parse_page(url) when the page loads, lines 249-296, up to the loop of
\* parse_subpages (lines 750-753): the page is rendered (its anchors become
\* known on its first load), its sub-pages are found, it is exported and
\* entered in the registry, and the loop over its sub-pages is entered.
ParsePage ==
    /\ pc = "running"
    /\ pending # NoUrl
    /\ LET url == pending
           canonical == Canonical(url)
       IN  /\ IF canonical \in DOMAIN site THEN site' = site
              ELSE \E anchors \in AnchorListsUpTo[MaxLinks - LinkCount(site)] :
                      site' = Merge(site, [q \in {canonical} |-> anchors])
           /\ LET parse_links == ~Truthy(Get(GetPageConfig(config, url), "no-links"))
                  subpages == FindSubpages(site'[canonical], DOMAIN processed_pages,
                                           parse_links)
              IN  /\ processed_pages' =
                         Merge(processed_pages, [u \in {url} |-> HtmlFile(config, url)])
                  /\ discovered' = discovered \cup Range(subpages)
                  /\ stack' = IF EntersLoop(subpages, single_page)
                              THEN Append(stack,
                                          [url |-> url, subpages |-> subpages, i |-> 1])
                              ELSE stack
           /\ collisions' =
                 Reported(collisions, processed_pages, url, HtmlFile(config, url))
           /\ html_written' = Written(html_written, url, HtmlFile(config, url))
           /\ starts' = Append(starts, url)
    /\ pending' = NoUrl
    /\ config' = ConfigAfterCall(config)
    /\ UNCHANGED <<single_page, pc, timed_out>>
    /\ UNCHANGED <<site0, token, call, matching, resolved, extension, slug_out>>
    /\ UNCHANGED <<cache_vars, page_vars, link_vars, inject_vars, wait_vars>>

\* parse_page(url) when the readiness wait times out, lines 261-268: the
\* TimeoutException is raised again; neither parse_subpages nor parse_page nor
\* run catches it, so every active call is left and run ends with it.
LoadTimeout ==
    /\ pc = "running"
    /\ pending # NoUrl
    /\ timed_out' = pending
    /\ starts' = Append(starts, pending)
    /\ pending' = NoUrl
    /\ stack' = <<>>
    /\ pc' = "aborted"
    /\ UNCHANGED <<site, single_page, processed_pages, discovered>>
    /\ UNCHANGED <<cfg_vars, cache_vars, page_vars, link_vars, export_vars, inject_vars, wait_vars>>

\* parse_subpages, lines 753-755: the next sub-page of the innermost loop.
\* The recursion is cut off at MaxDepth, a depth no crawl of the site needs
\* (DepthBounded).
NextSubpage ==
    /\ pc = "running"
    /\ pending = NoUrl
    /\ stack # <<>>
    /\ LET top == stack[Len(stack)]
       IN  /\ top.i <= Len(top.subpages)
           /\ ShouldParse(SubPageAt(top), DOMAIN processed_pages)
                 => Len(stack) < MaxDepth
           /\ stack' = [stack EXCEPT ![Len(stack)].i = top.i + 1]
           /\ pending' = IF ShouldParse(SubPageAt(top), DOMAIN processed_pages)
                         THEN SubPageAt(top)
                         ELSE NoUrl
    /\ UNCHANGED <<site, single_page, processed_pages, pc, starts, discovered,
                   timed_out>>
    /\ UNCHANGED <<cfg_vars, cache_vars, page_vars, link_vars, export_vars, inject_vars, wait_vars>>

\* the innermost loop is over: parse_subpages and the parse_page that called
\* it return
ReturnFromSubpages ==
    /\ pc = "running"
    /\ pending = NoUrl
    /\ stack # <<>>
    /\ stack[Len(stack)].i > Len(stack[Len(stack)].subpages)
    /\ stack' = SubSeq(stack, 1, Len(stack) - 1)
    /\ UNCHANGED <<site, single_page, processed_pages, pending, pc, starts,
                   discovered, timed_out>>
    /\ UNCHANGED <<cfg_vars, cache_vars, page_vars, link_vars, export_vars, inject_vars, wait_vars>>

\* run, lines 765-773: parse_page(self.starting_url) has returned
Finish ==
    /\ pc = "running"
    /\ pending = NoUrl
    /\ stack = <<>>
    /\ pc' = "done"
    /\ UNCHANGED <<site, single_page, processed_pages, stack, pending, starts,
                   discovered, timed_out>>
    /\ UNCHANGED <<cfg_vars, cache_vars, page_vars, link_vars, export_vars, inject_vars, wait_vars>>

Next ==
    \/ Run
    \/ ParsePage
    \/ LoadTimeout
    \/ NextSubpage
    \/ ReturnFromSubpages
    \/ Finish

Spec == Init /\ [][Next]_vars

\* the steps other than the successful load of a page. LoadTimeout is enabled
\* in the states in which ParsePage is, and a ParsePage step leaves no page
\* pending, so that the step after it is one of these: weak fairness of
\* AfterLoad is weak fairness of Next.
AfterLoad ==
    \/ Run
    \/ LoadTimeout
    \/ NextSubpage
    \/ ReturnFromSubpages
    \/ Finish

\* the program always takes its next step
FairSpec == Spec /\ WF_vars(AfterLoad)

\* the recursion never reaches the depth at which NextSubpage is cut off:
\* every active loop belongs to a different url of the registry
DepthBounded ==
    /\ Len(stack) <= Cardinality(DOMAIN processed_pages)
    /\ Cardinality(DOMAIN processed_pages) < MaxDepth

\* the canonical pages that are keys of the visited registry
VisitedPages == {Canonical(u) : u \in DOMAIN processed_pages}

\* every page an anchor of a rendered page points at is in the registry
ReachableVisited ==
    /\ Canonical(index_url) \in VisitedPages
    /\ \A p \in DOMAIN site : \A k \in 1..Len(site[p]) :
          Canonical(site[p][k].href) \in VisitedPages

\* C1 as stated: when every load succeeds and single-page mode is off, no
\* canonical page is started twice (parse_page is never started for a page
\* whose canonical URL is already in the registry), and at the end of the run
\* every reachable page is in the registry.
C1_EachCanonicalPageOnce ==
    (timed_out = NoUrl /\ ~single_page) =>
        /\ \A i, j \in 1..Len(starts) :
              i < j => Canonical(starts[i]) # Canonical(starts[j])
        /\ pc = "done" => ReachableVisited

\* C3 as stated: a load timeout aborts the branch of that page only: the page
\* is not in the registry, and at the end of the run every other sub-page that
\* was discovered in a batch has been loaded and exported.
C3_TimeoutAbortsOnlyBranch ==
    (pc \in {"done", "aborted"} /\ timed_out # NoUrl) =>
        /\ timed_out \notin DOMAIN processed_pages
        /\ \A u \in discovered \ {timed_out} : u \in DOMAIN processed_pages

\* C14: in single-page mode a finished run has loaded and exported the entry
\* page and nothing else, whatever sub-pages were found on it; in every mode a
\* url parse_page was started with is a key of the registry unless its load
\* timed out.
C14_SinglePageExportsEntryOnly ==
    /\ (single_page /\ pc = "done") =>
          /\ DOMAIN processed_pages = {index_url}
          /\ starts = <<index_url>>
    /\ \A k \in 1..Len(starts) :
          starts[k] # timed_out => starts[k] \in DOMAIN processed_pages

\* a single-page run that ended on an entry page with links to another page
C14_Witness ==
    /\ single_page
    /\ pc = "done"
    /\ \E u \in discovered : Canonical(u) # Canonical(index_url)
    /\ DOMAIN processed_pages = {index_url}

\* the position at which url u was exported
ExportedAt(u) == CHOOSE k \in 1..Len(starts) : starts[k] = u

\* C15: when two distinct urls were exported to one file name, the collision
\* was reported for the one exported second, the file holds the page that was
\* written last, both urls are in the registry under that file name, and the
\* run has not stopped for it.
C15_CollisionReportedLaterWins ==
    /\ \A u1, u2 \in DOMAIN processed_pages :
          (u1 # u2 /\ processed_pages[u1] = processed_pages[u2]
              /\ ExportedAt(u1) < ExportedAt(u2))
          => /\ \E k \in 1..Len(collisions) :
                   collisions[k] = [url |-> u2, file |-> processed_pages[u2]]
             /\ html_written[processed_pages[u2]] # u1
    /\ \A f \in DOMAIN html_written :
          /\ processed_pages[html_written[f]] = f
          /\ \A u \in DOMAIN processed_pages :
                processed_pages[u] = f => ExportedAt(u) <= ExportedAt(html_written[f])
    /\ timed_out = NoUrl => pc # "aborted"

\* a finished run that exported page b under two urls, b and b?v, to b.html
C15_Witness ==
    /\ pc = "done"
    /\ \E u1, u2 \in DOMAIN processed_pages :
          /\ u1 # u2
          /\ processed_pages[u1] = <<"b">> \o DotHtml
          /\ processed_pages[u2] = <<"b">> \o DotHtml
          /\ ExportedAt(u1) < ExportedAt(u2)
          /\ html_written[<<"b">> \o DotHtml] = u2
          /\ collisions # <<>>

\* no parse_page is about to start for a url that is a key of the registry
NoSecondWrite == pending # NoUrl => pending \notin DOMAIN processed_pages

\* run starts with an empty registry; after that every key stays, with the
\* file name it was given
RegistryGrows ==
    /\ pc = "idle" => processed_pages' = EmptyTable
    /\ pc # "idle" =>
          \A u \in DOMAIN processed_pages :
              /\ u \in DOMAIN processed_pages'
              /\ processed_pages'[u] = processed_pages[u]

\* C23: processed_pages is empty when run starts, no key of it is removed
\* during the run, and a url that is a key of it is never exported again nor
\* mapped to another file name.
C23_RegistryWriteOnce == []NoSecondWrite /\ [][RegistryGrows]_vars

\* a finished run with two pages in the registry, one of them linked to from
\* a page that was rendered when it was already in the registry
C23_Witness ==
    /\ pc = "done"
    /\ Cardinality(DOMAIN processed_pages) >= 2
    /\ \E k \in 2..Len(starts) : \E j \in 1..Len(site[Canonical(starts[k])]) :
          \E i \in 1..(k - 1) : site[Canonical(starts[k])][j].href = starts[i]

\* the sub-pages of a loop of parse_subpages that are still to come
Remaining(frame) == SubSeq(frame.subpages, frame.i, Len(frame.subpages))

\* no batch holds a url twice, and no batch holds a url that a batch of a
\* loop further out still has to come to
NoDuplicateInFrontier ==
    \A f \in 1..Len(stack) :
        /\ \A j, k \in 1..Len(stack[f].subpages) :
              stack[f].subpages[j] = stack[f].subpages[k] => j = k
        /\ \A g \in 1..(f - 1) :
              Range(stack[f].subpages) \cap Range(Remaining(stack[g])) = {}

\* the batch a parse_page step found holds no key the registry had
DiscoveredUnvisited ==
    Len(stack') > Len(stack) =>
        Range(stack'[Len(stack')].subpages) \cap DOMAIN processed_pages = {}

\* C25 as stated: a url is added to a batch only if it is not in that batch
\* already, not in a batch of an ancestor that is still pending, and not a key
\* of the registry.
C25_FrontierHoldsNoPageTwice ==
    /\ []NoDuplicateInFrontier
    /\ [][DiscoveredUnvisited]_vars

\* a batch that holds one url twice
C25_SameUrlTwiceInBatch ==
    \E f \in 1..Len(stack) : \E j, k \in 1..Len(stack[f].subpages) :
        j < k /\ stack[f].subpages[j] = stack[f].subpages[k]

\* a batch that holds a url that was a key of the registry when it was found
C25_VisitedUrlInBatch ==
    \E f \in 2..Len(stack) :
        /\ stack[1].url \in Range(stack[f].subpages)
        /\ stack[f].url # stack[1].url

\* every active loop belongs to an exported page and is at the sub-page whose
\* parse_page called the loop above it; the page about to load is the entry
\* page or the sub-page the innermost loop has just come to; the page whose
\* load timed out was not exported
DepthFirst ==
    /\ \A f \in 1..Len(stack) :
          /\ stack[f].url \in DOMAIN processed_pages
          /\ f < Len(stack) =>
                /\ stack[f].i >= 2
                /\ stack[f + 1].url = stack[f].subpages[stack[f].i - 1]
    /\ pending # NoUrl =>
          IF stack = <<>> THEN pending = index_url
          ELSE /\ stack[Len(stack)].i >= 2
               /\ pending = stack[Len(stack)].subpages[stack[Len(stack)].i - 1]
    /\ timed_out # NoUrl => timed_out \notin DOMAIN processed_pages

\* a loop moves on by one sub-page at a time, and only when no loop is active
\* above it and no page is about to load
OneSiblingAtATime ==
    \A f \in 1..Len(stack) :
        f <= Len(stack') =>
            /\ stack'[f].url = stack[f].url
            /\ stack'[f].subpages = stack[f].subpages
            /\ stack'[f].i \in {stack[f].i, stack[f].i + 1}
            /\ stack'[f].i # stack[f].i => (f = Len(stack) /\ pending = NoUrl)

\* C27: pages are loaded and exported one at a time; a page is exported only
\* if its load succeeded, and before any sub-page found on it is loaded; its
\* sub-pages are gone through in the order in which they were found, each with
\* all the pages below it before the next one.
C27_SequentialDepthFirst == []DepthFirst /\ [][OneSiblingAtATime]_vars

\* the loop of page b, below the loop of the entry page, is about to load a
\* sub-page of b while the entry page still has a sub-page to come
C27_Witness ==
    /\ Len(stack) = 2
    /\ pending # NoUrl
    /\ stack[1].i <= Len(stack[1].subpages)
    /\ stack[1].subpages[stack[1].i] # stack[2].url
    /\ pending \notin DOMAIN processed_pages

\* C4: for every finite page graph, cycles included, a run ends, whether its
\* loads succeed or one times out.
C4_RunTerminates == <>(pc \in {"done", "aborted"})

\* a run that ended on a site where two pages link to each other and one
\* links to itself
C4_Witness ==
    /\ pc = "done"
    /\ ~single_page
    /\ \E p, q \in DOMAIN site :
          /\ p # q
          /\ \E k \in 1..Len(site[p]) : Canonical(site[p][k].href) = q
          /\ \E k \in 1..Len(site[q]) : Canonical(site[q][k].href) = p
          /\ \E k \in 1..Len(site[q]) : Canonical(site[q][k].href) = q

-----------------------------------------------------------------------------
(* The page pipeline of parse_page, run twice on one output folder *)

MaxImgs == 2
MaxToggles == 1

\* the values uuid.uuid4() can return
UUIDs == {"u1", "u2"}

\* a stylesheet of notion.so, linked from the page
CssRef == [ImgRef EXCEPT !.path = "/app", !.suffix = ".css"]

\* the stylesheet links of a page: none, or one whose stylesheet has a
\* font-face rule or has none
StylesheetLinks == {<<>>} \cup {<<[ref |-> CssRef, font_face |-> b]>> : b \in BOOLEAN}

\* the pages: img tags with a remote src, stylesheet links, toggle blocks, and
\* the script tags the configuration injects
RenderedPages ==
    [imgs : UNION {[1..n -> {ImgRef, EscapedRef}] : n \in 0..MaxImgs},
     css : StylesheetLinks,
     toggles : 0..MaxToggles,
     inject : {<<>>, <<JsRef>>}]

InitPage ==
    /\ config = [site |-> EmptyTable, pages |-> EmptyTable]
    /\ site0 = config.site
    /\ ConfigIdle
    /\ CacheIdle
    /\ CrawlIdle
    /\ page \in RenderedPages
    /\ soup = EmptySoup
    /\ step = "idle"
    /\ exports = <<>>
    /\ LinkIdle
    /\ ExportIdle
    /\ InjectIdle
    /\ WaitIdle

\* what the last call of cache_file returned
LastReturn(log) == log[Len(log)].ret

\* run, lines 761-764, and parse_page up to line 276: the page is rendered
\* again and parsed into a new document; the output folder is left as it is
StartRun ==
    /\ step = "idle"
    /\ Len(exports) < 2
    /\ soup' = EmptySoup
    /\ step' = "process_images_and_emojis"
    /\ UNCHANGED <<page, exports, link_vars, export_vars, inject_vars, wait_vars>>
    /\ UNCHANGED <<cfg_vars, cache_vars, crawl_vars>>

\* process_images_and_emojis, lines 436-452: the next img of the loop is
\* cached and its src set to what cache_file returned; after the last one
\* parse_page goes on
process_images_and_emojis ==
    /\ step = "process_images_and_emojis"
    /\ IF Len(soup.imgs) < Len(page.imgs)
       THEN /\ \E resp \in Responses :
                  cache_file(page.imgs[Len(soup.imgs) + 1], NoName, resp)
            /\ soup' = [soup EXCEPT !.imgs = Append(@, LastReturn(cache_log'))]
            /\ step' = step
       ELSE /\ step' = "process_stylesheets"
            /\ UNCHANGED <<soup, cache_vars>>
    /\ UNCHANGED <<page, exports, link_vars, export_vars, inject_vars, wait_vars>>
    /\ UNCHANGED <<cfg_vars, crawl_vars>>

\* process_stylesheets, lines 472-489 and 518: the stylesheet is cached and
\* the cached file is opened.  cache_file returns the url when the fetch
\* failed: open() then raises FileNotFoundError, which nothing catches, and
\* the run ends with it.
process_stylesheets ==
    /\ step = "process_stylesheets"
    /\ IF page.css # <<>>
       THEN /\ \E resp \in Responses : cache_file(page.css[1].ref, NoName, resp)
            /\ IF LastReturn(cache_log').kind = "path"
               THEN /\ soup' = [soup EXCEPT !.css = <<LastReturn(cache_log')>>]
                    /\ step' = IF page.css[1].font_face THEN "font_face"
                               ELSE "add_toggle_custom_logic"
               ELSE /\ soup' = soup
                    /\ step' = "crashed"
       ELSE /\ step' = "add_toggle_custom_logic"
            /\ UNCHANGED <<soup, cache_vars>>
    /\ UNCHANGED <<page, exports, link_vars, export_vars, inject_vars, wait_vars>>
    /\ UNCHANGED <<cfg_vars, crawl_vars>>

\* process_stylesheets, lines 491-516: the font of the font-face rule is
\* cached under its own file name, and the rule is set to what cache_file
\* returned
font_face ==
    /\ step = "font_face"
    /\ \E resp \in Responses : cache_file(FontRef, FontName, resp)
    /\ soup' = [soup EXCEPT !.fonts = <<LastReturn(cache_log')>>]
    /\ step' = "add_toggle_custom_logic"
    /\ UNCHANGED <<page, exports, link_vars, export_vars, inject_vars, wait_vars>>
    /\ UNCHANGED <<cfg_vars, crawl_vars>>

\* add_toggle_custom_logic, lines 520-540: every toggle block gets the id
\* uuid.uuid4() returns for it
add_toggle_custom_logic ==
    /\ step = "add_toggle_custom_logic"
    /\ \E ids \in [1..page.toggles -> UUIDs] : soup' = [soup EXCEPT !.toggles = ids]
    /\ step' = "inject_custom_tags"
    /\ UNCHANGED <<page, exports, link_vars, export_vars, inject_vars, wait_vars>>
    /\ UNCHANGED <<cfg_vars, cache_vars, crawl_vars>>

\* inject_custom_tags, lines 628-663: the src of an injected tag is cached and
\* set to str() of what cache_file returned
inject_custom_tags ==
    /\ step = "inject_custom_tags"
    /\ IF page.inject # <<>>
       THEN /\ \E resp \in Responses : cache_file(page.inject[1], NoName, resp)
            /\ soup' = [soup EXCEPT !.inject = <<LastReturn(cache_log')>>]
       ELSE UNCHANGED <<soup, cache_vars>>
    /\ step' = "export_parsed_page"
    /\ UNCHANGED <<page, exports, link_vars, export_vars, inject_vars, wait_vars>>
    /\ UNCHANGED <<cfg_vars, crawl_vars>>

\* export_parsed_page, lines 733-746: str(soup) is written to the html file
export_parsed_page ==
    /\ step = "export_parsed_page"
    /\ exports' = Append(exports, [html |-> soup, calls |-> Len(cache_log)])
    /\ step' = "idle"
    /\ UNCHANGED <<page, soup, link_vars, export_vars, inject_vars, wait_vars>>
    /\ UNCHANGED <<cfg_vars, cache_vars, crawl_vars>>

NextPage ==
    \/ StartRun
    \/ process_images_and_emojis
    \/ process_stylesheets
    \/ font_face
    \/ add_toggle_custom_logic
    \/ inject_custom_tags
    \/ export_parsed_page

SpecPage == InitPage /\ [][NextPage]_vars

\* C18 as stated: a fetch that fails returns the reference, leaves no file
\* under the key, and does not stop the page: the pipeline never ends in an
\* exception.
C18_FetchFailureContained ==
    /\ \A k \in 1..Len(cache_log) :
          (\A j \in 1..Len(cache_log) :
              cache_log[j].name = cache_log[k].name => cache_log[j].ret.kind = "url")
          => ~\E f \in dist : f.stem = cache_log[k].name.stem
    /\ step # "crashed"

\* the calls of cache_file the second run made
SecondRunCalls == {k \in 1..Len(cache_log) : k > exports[1].calls}

\* C5 as stated: a second run on the output folder the first run left writes
\* the html the first run wrote, and fetches nothing from the network.
C5_SecondRunIdentical ==
    Len(exports) = 2 =>
        /\ exports[2].html = exports[1].html
        /\ \A k \in SecondRunCalls : cache_log[k].io # "get"

-----------------------------------------------------------------------------
(* Link discovery on one page: find_subpages, then export_parsed_page *)

MaxAnchors == 3

\* the pages of the site the anchors point at; the first one is the index
LinkPages == {<<"a">>, <<"b">>}

\* the fragment of an anchor link
Fragment == <<"#", "s">>

\* the a tags of a rendered page that point under the site's domain: to a
\* page or to a section of a page, inside a div.notion-scroller or not
RenderedTags ==
    [tag : {"a"}, href : LinkPages \cup {p \o Fragment : p \in LinkPages},
     scroller : BOOLEAN]

\* an a tag from which the href was deleted
NoHref == <<>>

IndexHtml == <<"i", "n", "d", "e", "x">> \o DotHtml

RewriteAnchorNeverDemotes(a, parse_links, cfg) ==
    IF Contains(a.href, <<"#">>)
    THEN [a EXCEPT !.href =
             <<"#">> \o SubSeq(a.href, LastIndex(a.href, "#") + 1, Len(a.href))]
    ELSE [a EXCEPT !.href =
             IF a.href # index_url THEN GetPageSlug(cfg, a.href, TRUE)
             ELSE IndexHtml]

\* lines 690-730, one anchor: the tag as find_subpages leaves it.
\* extension_in_links is left at its default, True (line 710).
RewriteAnchor(a, parse_links, cfg) ==
    IF parse_links \/ ~a.scroller
    THEN IF Contains(a.href, <<"#">>)
         \* a["href"] = f"#{sub_page_href_tokens[-1]}"
         THEN [a EXCEPT !.href =
                  <<"#">> \o SubSeq(a.href, LastIndex(a.href, "#") + 1, Len(a.href))]
         ELSE [a EXCEPT !.href =
                  IF a.href # index_url THEN GetPageSlug(cfg, a.href, TRUE)
                  ELSE IndexHtml]
    \* del a["href"]; a.name = "span"
    ELSE [a EXCEPT !.tag = "span", !.href = NoHref]

\* line 681: not self.get_page_config(url).get("no-links", False)
ParseLinks(cfg, url) == ~Truthy(Get(GetPageConfig(cfg, url), "no-links"))

\* configurations without the no-links flag, with it for the whole site, and
\* with it for page a
LinkConfigs ==
    {[site |-> EmptyTable, pages |-> EmptyTable],
     [site |-> [k \in {"no-links"} |-> <<"t">>], pages |-> EmptyTable],
     [site |-> EmptyTable,
      pages |-> [k \in {<<"a">>} |-> [j \in {"no-links"} |-> <<"t">>]]]}

\* parse_page(cur_url) at line 294: the page was not parsed before (line
\* 754), so it is not in the registry; other pages may be
InitLinks ==
    /\ config \in LinkConfigs
    /\ site0 = config.site
    /\ ConfigIdle
    /\ CacheIdle
    /\ PageIdle
    /\ ExportIdle
    /\ InjectIdle
    /\ WaitIdle
    /\ site = EmptyTable
    /\ single_page = FALSE
    /\ stack = <<>>
    /\ pending = NoUrl
    /\ pc = "idle"
    /\ starts = <<>>
    /\ discovered = {}
    /\ timed_out = NoUrl
    /\ cur_url \in LinkPages
    /\ \E visited \in SUBSET (LinkPages \ {cur_url}) :
          processed_pages = [u \in visited |-> HtmlFile(config, u)]
    /\ a_tags0 \in UNION {[1..n -> RenderedTags] : n \in 0..MaxAnchors}
    /\ a_tags = a_tags0
    /\ batch = <<>>
    /\ link_step = "idle"

\* find_subpages(url, soup, hrefDomain), lines 678-731
find_subpages ==
    /\ link_step = "idle"
    /\ LET parse_links == ParseLinks(config, cur_url)
       IN  /\ batch' = FindSubpages(a_tags, DOMAIN processed_pages, parse_links)
           /\ a_tags' = [k \in 1..Len(a_tags) |->
                            RewriteAnchor(a_tags[k], parse_links, config)]
    /\ config' = ConfigAfterCall(config)
    /\ link_step' = "found"
    /\ UNCHANGED <<cur_url, a_tags0>>
    /\ UNCHANGED <<site0, token, call, matching, resolved, extension, slug_out>>
    /\ UNCHANGED <<cache_vars, crawl_vars, page_vars, export_vars, inject_vars, wait_vars>>

\* export_parsed_page(url, soup), line 746, called at line 295
ExportPage ==
    /\ link_step = "found"
    /\ processed_pages' =
          Merge(processed_pages, [u \in {cur_url} |-> HtmlFile(config, cur_url)])
    /\ collisions' =
          Reported(collisions, processed_pages, cur_url, HtmlFile(config, cur_url))
    /\ html_written' = Written(html_written, cur_url, HtmlFile(config, cur_url))
    /\ link_step' = "exported"
    /\ UNCHANGED <<cur_url, a_tags0, a_tags, batch>>
    /\ UNCHANGED <<site, single_page, stack, pending, pc, starts, discovered,
                   timed_out>>
    /\ UNCHANGED <<cfg_vars, cache_vars, page_vars, inject_vars, wait_vars>>

NextLinks ==
    \/ find_subpages
    \/ ExportPage

SpecLinks == InitLinks /\ [][NextLinks]_vars

\* the registry as find_subpages saw it
ProcessedBefore == (DOMAIN processed_pages) \ {cur_url}

\* the anchor is one find_subpages follows
IsFollowed(a) == ParseLinks(config, cur_url) \/ ~a.scroller

\* the anchor holds a fragment
IsFragment(a) == Contains(a.href, <<"#">>)

\* the page the anchor points at
Target(a) == IF IsFragment(a) THEN SubSeq(a.href, 1, Len(a.href) - Len(Fragment))
             ELSE a.href

\* the number of times url t is in the batch
TimesInBatch(t) == Cardinality({k \in 1..Len(batch) : batch[k] = t})

\* the followed anchors without a fragment that point at t
PlainAnchorsTo(t) ==
    {k \in 1..Len(a_tags0) :
        IsFollowed(a_tags0[k]) /\ ~IsFragment(a_tags0[k]) /\ a_tags0[k].href = t}

\* the first followed anchor that points at t is a fragment anchor
FirstAnchorIsFragment(t) ==
    \E k \in 1..Len(a_tags0) :
        /\ IsFollowed(a_tags0[k]) /\ IsFragment(a_tags0[k]) /\ Target(a_tags0[k]) = t
        /\ \A j \in 1..(k - 1) :
              ~(IsFollowed(a_tags0[j]) /\ Target(a_tags0[j]) = t)

\* every followed fragment anchor is rewritten to "#<fragment>"
FragmentsRewritten ==
    \A k \in 1..Len(a_tags0) :
        (IsFollowed(a_tags0[k]) /\ IsFragment(a_tags0[k]))
        => a_tags[k].tag = "a" /\ a_tags[k].href = Fragment

\* C12 as stated: a followed fragment anchor is rewritten to "#<fragment>",
\* and its target is not put in the batch by it when the target is visited or
\* is the page being transformed: a page only fragment anchors point at is
\* then not in the batch.
C12_FragmentNeverQueuesOwnPage ==
    link_step # "idle" =>
        /\ FragmentsRewritten
        /\ \A t \in ProcessedBefore \cup {cur_url} :
              PlainAnchorsTo(t) = {} => TimesInBatch(t) = 0

\* C12 amended: a followed fragment anchor is rewritten to "#<fragment>"; its
\* target is added to the batch only when it is neither a key of the registry
\* nor in the batch already, so fragment anchors add a page at most once and
\* never a visited one.  The page being transformed is not in the registry
\* during its own link discovery: the first fragment anchor to it adds it to
\* the batch, and parse_subpages skips it because it was exported meanwhile.
C12_FragmentQueuesUnvisitedOnce ==
    link_step # "idle" =>
        /\ FragmentsRewritten
        /\ \A t \in LinkPages :
              TimesInBatch(t) =
                  Cardinality(PlainAnchorsTo(t))
                  + (IF t \notin ProcessedBefore /\ FirstAnchorIsFragment(t)
                     THEN 1 ELSE 0)
        /\ link_step = "exported" => ~ShouldParse(cur_url, DOMAIN processed_pages)

\* page a holds two anchors to its own section and one to a section of the
\* visited page b: a is in the batch once, b is not, and a is not parsed again
C12_Witness ==
    /\ link_step = "exported"
    /\ cur_url = <<"a">>
    /\ ProcessedBefore = {<<"b">>}
    /\ [k \in 1..Len(a_tags0) |-> a_tags0[k].href] =
          << <<"a">> \o Fragment, <<"b">> \o Fragment, <<"a">> \o Fragment >>
    /\ \A k \in 1..Len(a_tags0) : IsFollowed(a_tags0[k])
    /\ batch = << <<"a">> >>
    /\ \A k \in 1..Len(a_tags) : a_tags[k].href = Fragment

\* the href find_subpages gives an anchor without a fragment: the file the
\* page is exported to
ExpectedHref(a) == IF a.href = index_url THEN IndexHtml ELSE a.href \o DotHtml

\* C13 as stated: an anchor outside div.notion-scroller keeps an href, is
\* rewritten and its target is in the batch, whatever the no-links flag.
C13_OutsideAlwaysQueued ==
    link_step # "idle" =>
        \A k \in 1..Len(a_tags0) :
            ~a_tags0[k].scroller =>
                /\ a_tags[k].tag = "a"
                /\ a_tags[k].href # NoHref
                /\ a_tags[k].href # a_tags0[k].href
                /\ TimesInBatch(Target(a_tags0[k])) > 0

\* C13 amended: an anchor outside div.notion-scroller is handled as if the
\* no-links flag were off: it keeps an href, which is rewritten (to the file
\* of the target page, or to "#<fragment>"), and its target is in the batch,
\* unless it is a fragment anchor whose target is already visited.
C13_OutsideFollowedWhateverFlag ==
    link_step # "idle" =>
        \A k \in 1..Len(a_tags0) :
            ~a_tags0[k].scroller =>
                /\ a_tags[k].tag = "a"
                /\ a_tags[k].href =
                      (IF IsFragment(a_tags0[k]) THEN Fragment
                       ELSE ExpectedHref(a_tags0[k]))
                /\ (~IsFragment(a_tags0[k]) \/ Target(a_tags0[k]) \notin ProcessedBefore)
                      => TimesInBatch(Target(a_tags0[k])) > 0

\* the no-links flag is set: the anchor to b in the navigation bar is queued
\* and rewritten, the anchor to b in the content is stripped
C13_Witness ==
    /\ link_step = "found"
    /\ ~ParseLinks(config, cur_url)
    /\ Len(a_tags0) = 2
    /\ a_tags0[1] = [tag |-> "a", href |-> <<"b">>, scroller |-> FALSE]
    /\ a_tags0[2] = [tag |-> "a", href |-> <<"b">>, scroller |-> TRUE]
    /\ a_tags[1].href = <<"b">> \o DotHtml
    /\ a_tags[2].tag = "span"
    /\ batch = << <<"b">> >>

\* the anchors of the page outside every div.notion-scroller
OutsideAnchors == {k \in 1..Len(a_tags0) : ~a_tags0[k].scroller}

\* C28: on a page whose configuration holds a true no-links, every anchor
\* inside div.notion-scroller loses its href and becomes a span, with or
\* without a fragment, and the batch holds only targets of anchors outside
\* it, at most one entry for each such anchor.
C28_NoLinksDemotesContentAnchors ==
    (link_step # "idle" /\ ~ParseLinks(config, cur_url)) =>
        /\ \A k \in 1..Len(a_tags0) :
              a_tags0[k].scroller =>
                  /\ a_tags[k].tag = "span"
                  /\ a_tags[k].href = NoHref
        /\ \A j \in 1..Len(batch) :
              \E k \in OutsideAnchors : Target(a_tags0[k]) = batch[j]
        /\ Len(batch) <= Cardinality(OutsideAnchors)

\* page a has no-links set: its anchor to b in the content and its anchor to
\* a section of b in the content are spans, its anchor to a outside the
\* content is the only one that put a url in the batch
C28_Witness ==
    /\ link_step = "found"
    /\ cur_url = <<"a">>
    /\ ~ParseLinks(config, cur_url)
    /\ Len(a_tags0) = 3
    /\ a_tags0[1] = [tag |-> "a", href |-> <<"b">>, scroller |-> TRUE]
    /\ a_tags0[2] = [tag |-> "a", href |-> <<"b">> \o Fragment, scroller |-> TRUE]
    /\ a_tags0[3] = [tag |-> "a", href |-> <<"a">>, scroller |-> FALSE]
    /\ a_tags[1].tag = "span"
    /\ a_tags[2].tag = "span"
    /\ batch = << <<"a">> >>

\* the href find_subpages writes into the document of an exported page for
\* its anchor a (lines 709-715)
WrittenHref(a) ==
    RewriteAnchor([tag |-> "a", href |-> a.href, scroller |-> a.scroller],
                  TRUE, config).href

\* the file names under which the page that url t points at was exported
ExportsOf(t) ==
    {processed_pages[u] : u \in {v \in DOMAIN processed_pages :
                                    Canonical(v) = Canonical(t)}}

\* C26 as stated: in a finished run every anchor without a fragment of an
\* exported page holds the file name under which the page it points at was
\* exported, index.html for the entry page: two references to one page hold
\* one file name.
C26_HrefIsExportOfTarget ==
    (pc = "done" /\ ~single_page) =>
        \A p \in DOMAIN site : \A k \in 1..Len(site[p]) :
            /\ ExportsOf(site[p][k].href) = {WrittenHref(site[p][k])}
            /\ Canonical(site[p][k].href) = Canonical(index_url)
                  => WrittenHref(site[p][k]) = IndexHtml

\* What holds of C26: the href is the file name under which the url of the
\* anchor, query string included, was exported.
C26_HrefIsExportOfSameUrl ==
    (pc = "done" /\ ~single_page) =>
        \A p \in DOMAIN site : \A k \in 1..Len(site[p]) :
            /\ site[p][k].href \in DOMAIN processed_pages
            /\ processed_pages[site[p][k].href] = WrittenHref(site[p][k])

\* a finished run on an entry page that links to itself with a query string
C26_EntryLinkedWithQuery ==
    /\ pc = "done"
    /\ ~single_page
    /\ \E k \in 1..Len(site[index_url]) :
          /\ site[index_url][k].href = index_url \o <<"?", "v">>
          /\ WrittenHref(site[index_url][k]) # IndexHtml

-----------------------------------------------------------------------------
(* One configured element injected into the page: inject_custom_tags *)

MaxAttrs == 2

\* a local file with a suffix (tests/test_inject_custom_tags.py:23)
TestFileRef == [BundleRef EXCEPT !.path = "tests/test_file", !.suffix = ".txt"]

\* the attributes of a configured element
AttrNames == {"src", "href", "type", "inner_html"}

\* line 649: attr.lower() in ["href", "src"]
IsFileAttr(attr) == attr \in {"href", "src"}

\* what an attribute is set to: the reference of a remote file, of a local
\* file that exists, of a local file that does not; or a text
AttrValues(attr) ==
    IF IsFileAttr(attr) THEN {JsRef, TestFileRef, MissingRef} ELSE {[text |-> "x"]}

\* the configured elements: up to MaxAttrs attributes with different names
Elements ==
    {e \in UNION {[1..n -> UNION {[attr : {a}, value : AttrValues(a)] : a \in AttrNames}] :
                     n \in 0..MaxAttrs} :
        \A i, j \in 1..Len(e) : i # j => e[i].attr # e[j].attr}

\* an attribute that was set to the configured text
AsText == [kind |-> "text", file |-> NoFile]

InitInject ==
    /\ config = [site |-> EmptyTable, pages |-> EmptyTable]
    /\ site0 = config.site
    /\ ConfigIdle
    /\ CacheIdle
    /\ CrawlIdle
    /\ PageIdle
    /\ LinkIdle
    /\ ExportIdle
    /\ element0 \in Elements
    /\ element = element0
    /\ injected_tag = NewTag
    /\ WaitIdle

\* lines 640-656, one turn of the loop over the attributes of the element:
\* inner_html is skipped, a href or src is set to str() of what cache_file
\* returns for it, any other attribute is set to its value
InjectAttr ==
    /\ element # <<>>
    /\ ~injected_tag.appended
    /\ LET attr == Head(element).attr
           value == Head(element).value
       IN  IF attr = "inner_html"
           THEN UNCHANGED <<injected_tag, cache_vars>>
           ELSE IF IsFileAttr(attr)
           THEN /\ \E resp \in Responses : cache_file(value, NoName, resp)
                /\ injected_tag' =
                      [injected_tag EXCEPT
                          !.attrs = Merge(@, [a \in {attr} |-> LastReturn(cache_log')])]
           ELSE /\ injected_tag' =
                      [injected_tag EXCEPT !.attrs = Merge(@, [a \in {attr} |-> AsText])]
                /\ UNCHANGED cache_vars
    /\ element' = Tail(element)
    /\ UNCHANGED element0
    /\ UNCHANGED <<cfg_vars, crawl_vars, page_vars, link_vars, export_vars, wait_vars>>

\* lines 659-663: inner_html becomes the content of the tag, and the tag is
\* appended to the section
InjectAppend ==
    /\ element = <<>>
    /\ ~injected_tag.appended
    /\ injected_tag' =
          [injected_tag EXCEPT
              !.string = IF \E k \in 1..Len(element0) : element0[k].attr = "inner_html"
                         THEN "x" ELSE "",
              !.appended = TRUE]
    /\ UNCHANGED <<element, element0>>
    /\ UNCHANGED <<cfg_vars, cache_vars, crawl_vars, page_vars, link_vars, export_vars,
                   wait_vars>>

NextInject ==
    \/ InjectAttr
    \/ InjectAppend

SpecInject == InitInject /\ [][NextInject]_vars

\* C16 as stated: once the tag is appended, each href or src of it holds a
\* path into the output folder: the file the cache wrote for a reference with
\* a scheme, the file <sha-1 key><suffix> for a local reference; inner_html is
\* not an attribute of the tag but its text.
C16_InjectedAttrHoldsCachedPath ==
    injected_tag.appended =>
        /\ \A k \in 1..Len(element0) :
              IsFileAttr(element0[k].attr) =>
                  LET ref == element0[k].value
                      held == injected_tag.attrs[element0[k].attr]
                  IN  /\ held.kind = "path"
                      /\ held.file \in dist
                      /\ ~IsNetwork(ref) =>
                            held.file = [CacheName(ref, NoName) EXCEPT !.ext = ref.suffix]
        /\ "inner_html" \notin DOMAIN injected_tag.attrs
        /\ (\E k \in 1..Len(element0) : element0[k].attr = "inner_html")
              => injected_tag.string = "x"

-----------------------------------------------------------------------------
(* The readiness wait: notion_page_loaded, polled while the page renders *)

MaxCount == 1
MaxScrollers == 2

\* a div.notion-scroller: the number of div elements below it, and of its
\* child elements that are not divs and hold none
ScrollerStates == [divs : 0..MaxCount, others : 0..MaxCount]

\* what the driver finds in the document
DomStates ==
    [presence : 0..MaxCount, unknown : 0..MaxCount, spinners : 0..MaxCount,
     scrollers : UNION {[1..n -> ScrollerStates] : n \in 0..MaxScrollers}]

NotionPageLoadedAnyScrollers(d) ==
    IF d.presence # 0
    THEN d.unknown = 0 /\ d.spinners = 0
    ELSE FALSE

\* notion_page_loaded.__call__, src/loconotion/modules/conditions.py:9-34
NotionPageLoaded(d) ==
    IF d.presence # 0
    THEN LET scrollers_with_children ==
                 SelectSeq(d.scrollers, LAMBDA scroller : scroller.divs > 0)
             all_scrollers_loaded == Len(d.scrollers) = Len(scrollers_with_children)
         IN  all_scrollers_loaded /\ d.unknown = 0 /\ d.spinners = 0
    ELSE FALSE

InitReady ==
    /\ config = [site |-> EmptyTable, pages |-> EmptyTable]
    /\ site0 = config.site
    /\ ConfigIdle
    /\ CacheIdle
    /\ CrawlIdle
    /\ PageIdle
    /\ LinkIdle
    /\ ExportIdle
    /\ InjectIdle
    /\ ToggleIdle
    /\ MoreIdle
    /\ dom = EmptyDom
    /\ polled = "none"

\* the page renders: elements of one kind appear or go, a scroller appears,
\* goes or gets other content
Render ==
    /\ \/ \E n \in 0..MaxCount : n # dom.presence /\ dom' = [dom EXCEPT !.presence = n]
       \/ \E n \in 0..MaxCount : n # dom.unknown /\ dom' = [dom EXCEPT !.unknown = n]
       \/ \E n \in 0..MaxCount : n # dom.spinners /\ dom' = [dom EXCEPT !.spinners = n]
       \/ /\ Len(dom.scrollers) < MaxScrollers
          /\ \E sc \in ScrollerStates :
                dom' = [dom EXCEPT !.scrollers = Append(@, sc)]
       \/ /\ dom.scrollers # <<>>
          /\ dom' = [dom EXCEPT !.scrollers = SubSeq(@, 1, Len(@) - 1)]
       \/ \E k \in 1..Len(dom.scrollers), sc \in ScrollerStates :
             /\ sc # dom.scrollers[k]
             /\ dom' = [dom EXCEPT !.scrollers[k] = sc]
    /\ dom' \in DomStates
    /\ polled' = "none"
    /\ UNCHANGED <<toggle_vars, more_vars>>
    /\ UNCHANGED <<cfg_vars, cache_vars, crawl_vars, page_vars, link_vars, export_vars,
                   inject_vars>>

\* WebDriverWait(...).until(notion_page_loaded()) calls the predicate once
\* more (notionparser.py:759)
Poll ==
    /\ polled = "none"
    /\ polled' = IF NotionPageLoaded(dom) THEN "True" ELSE "False"
    /\ UNCHANGED <<dom, toggle_vars, more_vars>>
    /\ UNCHANGED <<cfg_vars, cache_vars, crawl_vars, page_vars, link_vars, export_vars,
                   inject_vars>>

NextReady ==
    \/ Render
    \/ Poll

SpecReady == InitReady /\ [][NextReady]_vars

\* the first three conditions: a presence marker, no unknown-block
\* placeholder, no loading spinner
MarkersReady == dom.presence > 0 /\ dom.unknown = 0 /\ dom.spinners = 0

\* C19 as stated: the predicate returns true iff the three markers are right
\* and every scroller has at least one child element.
C19_ReadyIffEveryScrollerHasChild ==
    polled # "none" =>
        (polled = "True" <=>
            /\ MarkersReady
            /\ \A k \in 1..Len(dom.scrollers) :
                  dom.scrollers[k].divs + dom.scrollers[k].others > 0)

\* C19 amended: the predicate returns true iff the three markers are right
\* and every scroller has at least one div element below it; in every other
\* state it returns false.
C19_ReadyIffEveryScrollerHasDiv ==
    polled # "none" =>
        /\ polled = "True" <=>
              /\ MarkersReady
              /\ \A k \in 1..Len(dom.scrollers) : dom.scrollers[k].divs > 0
        /\ polled \in {"True", "False"}

\* the markers are right and one of two scrollers is still empty: the
\* predicate returned false
C19_Witness ==
    /\ polled = "False"
    /\ MarkersReady
    /\ Len(dom.scrollers) = 2
    /\ dom.scrollers[1].divs > 0
    /\ dom.scrollers[2].divs = 0
    /\ dom.scrollers[2].others = 0

-----------------------------------------------------------------------------
\* Toggle expansion: Parser.open_toggle_blocks
\*
\* The page holds toggle blocks 1..n in document order. A block is a
\* notion-toggle-block or a header block with a button (a title toggle); it is
\* "closed", "opening" (clicked, content still loading) or "opened"; its arrow
\* is rotated by 180 degrees or not; a block nested in another one is in the
\* document only once the outer one has opened.

MaxBlocks == 2

\* every block lies inside an earlier block or at the top level (0)
Nestings(n) == {f \in [1..n -> 0..n] : \A b \in 1..n : f[b] < b}

\* the rendered pages: every block closed with an unrotated arrow or opened
\* with a rotated one
TogglePages ==
    UNION {{[state  |-> st,
             arrow  |-> [b \in 1..n |-> st[b] = "opened"],
             kind   |-> kd,
             parent |-> par,
             page   |-> 1] :
               st \in [1..n -> {"closed", "opened"}],
               kd \in [1..n -> {"toggle", "title"}],
               par \in Nestings(n)} : n \in 1..MaxBlocks}

RECURSIVE InDocument(_, _)
InDocument(d, b) ==
    \/ d.parent[b] = 0
    \/ /\ d.state[d.parent[b]] = "opened"
       /\ InDocument(d, d.parent[b])

RECURSIVE FindElements(_, _, _)
\* the blocks of one kind among the first n that are in the document
FindElements(d, kind, n) ==
    IF n = 0 THEN <<>>
    ELSE LET before == FindElements(d, kind, n - 1)
         IN  IF d.kind[n] = kind /\ InDocument(d, n)
             THEN Append(before, n) ELSE before

\* find_elements_by_class_name("notion-toggle-block") followed by
\* _get_title_toggle_blocks()
ToggleBlocks(d) ==
    FindElements(d, "toggle", Len(d.state)) \o FindElements(d, "title", Len(d.state))

\* the id of the WebElement of block b, by which `in` compares elements: the
\* elements of the page rendered before have other ids
ElementId(d, b) == (d.page - 1) * MaxBlocks + b

IsToggledNever(d, b) == FALSE

\* "(180deg)" in the style of the arrow of the block's button
IsToggled(d, b) == d.arrow[b]

\* the click on the button of a block and the wait that follows it: a closed
\* block opens, or is still opening when the wait times out, its arrow
\* rotated already or not; a block that is open or opening closes
Click(d, b, opened, rotated) ==
    IF d.state[b] = "closed"
    THEN [d EXCEPT !.state[b] = IF opened THEN "opened" ELSE "opening",
                   !.arrow[b] = opened \/ rotated]
    ELSE [d EXCEPT !.state[b] = "closed", !.arrow[b] = FALSE]

ToggleOthersIdle ==
    /\ config = [site |-> EmptyTable, pages |-> EmptyTable]
    /\ site0 = config.site
    /\ ConfigIdle /\ CacheIdle /\ CrawlIdle /\ PageIdle /\ LinkIdle
    /\ ExportIdle /\ InjectIdle /\ ReadyIdle /\ MoreIdle

\* a page has loaded; exclude is the empty default list of the first call
InitToggles ==
    /\ ToggleOthersIdle
    /\ toggle_dom \in TogglePages
    /\ opened_toggles = <<>>
    /\ toggle_loop = [toggle_blocks |-> <<>>, i |-> 1, pc |-> "idle"]
    /\ clicks = <<>>

ToggleOthersUnchanged ==
    UNCHANGED <<cfg_vars, cache_vars, crawl_vars, page_vars, link_vars,
                export_vars, inject_vars, ready_vars, more_vars>>

\* a pass begins: the first call from parse_page, or the recursive call that
\* gets opened_toggles as its exclude list
FindToggleBlocks ==
    /\ toggle_loop.pc \in {"idle", "again"}
    /\ toggle_loop' = [toggle_blocks |-> ToggleBlocks(toggle_dom), i |-> 1, pc |-> "loop"]
    /\ UNCHANGED <<toggle_dom, opened_toggles, clicks>>
    /\ ToggleOthersUnchanged

\* how the wait after a click ends: toggle_block_has_opened holds, the wait
\* times out, or the wait raises another exception
WaitOutcomes == {"opened", "timeout", "error"}

CaughtNothing(wait) == wait = "opened"

\* lines 344-351: `except TimeoutException` and `except Exception`
Caught(wait) == wait \in WaitOutcomes

\* lines 345-351: log.warning for a timeout, log.error for another exception
Logged(wait) ==
    IF wait = "timeout" THEN "warning"
    ELSE IF wait = "error" THEN "error" ELSE "none"

\* one turn of the loop over toggle_blocks
OpenToggle ==
    /\ toggle_loop.pc = "loop"
    /\ toggle_loop.i <= Len(toggle_loop.toggle_blocks)
    /\ LET toggle_block == toggle_loop.toggle_blocks[toggle_loop.i]
       IN  IF /\ ElementId(toggle_dom, toggle_block) \notin Range(opened_toggles)
              /\ ~IsToggled(toggle_dom, toggle_block)
           THEN \E wait \in WaitOutcomes, rotated \in BOOLEAN :
                   /\ toggle_dom' = Click(toggle_dom, toggle_block,
                                          wait = "opened", rotated)
                   /\ clicks' = Append(clicks,
                                       [block  |-> toggle_block,
                                        found  |-> toggle_dom.state[toggle_block],
                                        wait   |-> wait,
                                        logged |-> IF Caught(wait) THEN Logged(wait)
                                                   ELSE "none"])
                   /\ IF Caught(wait)
                      THEN /\ opened_toggles' =
                                 Append(opened_toggles,
                                        ElementId(toggle_dom, toggle_block))
                           /\ toggle_loop' = [toggle_loop EXCEPT !.i = @ + 1]
                      ELSE /\ opened_toggles' = opened_toggles
                           /\ toggle_loop' = [toggle_loop EXCEPT !.pc = "raised"]
           ELSE /\ toggle_loop' = [toggle_loop EXCEPT !.i = @ + 1]
                /\ UNCHANGED <<toggle_dom, opened_toggles, clicks>>
    /\ ToggleOthersUnchanged

\* the content of a block that was still opening arrives
ContentLoads ==
    /\ toggle_loop.pc # "idle"
    /\ \E b \in 1..Len(toggle_dom.state) :
          /\ toggle_dom.state[b] = "opening"
          /\ toggle_dom' = [toggle_dom EXCEPT !.state[b] = "opened", !.arrow[b] = TRUE]
    /\ UNCHANGED <<opened_toggles, toggle_loop, clicks>>
    /\ ToggleOthersUnchanged

FoundMoreNever(new_toggle_blocks, toggle_blocks) == FALSE

\* line 359: `if len(new_toggle_blocks) > len(toggle_blocks)`
FoundMore(new_toggle_blocks, toggle_blocks) ==
    Len(new_toggle_blocks) > Len(toggle_blocks)

\* after the loop: more blocks in the page than the pass started with?
CheckNested ==
    /\ toggle_loop.pc = "loop"
    /\ toggle_loop.i > Len(toggle_loop.toggle_blocks)
    /\ LET new_toggle_blocks == ToggleBlocks(toggle_dom)
       IN  toggle_loop' = [toggle_loop EXCEPT !.pc =
                              IF FoundMore(new_toggle_blocks, toggle_loop.toggle_blocks)
                              THEN "again" ELSE "done"]
    /\ UNCHANGED <<toggle_dom, opened_toggles, clicks>>
    /\ ToggleOthersUnchanged

NextToggles == FindToggleBlocks \/ OpenToggle \/ ContentLoads \/ CheckNested

SpecToggles == InitToggles /\ [][NextToggles]_vars

StateRank(st) == IF st = "closed" THEN 0 ELSE IF st = "opening" THEN 1 ELSE 2

\* no block of the page goes from opened or opening back towards closed
MovesForward ==
    \A b \in 1..Len(toggle_dom.state) :
        StateRank(toggle_dom'.state[b]) >= StateRank(toggle_dom.state[b])

ClickedOnceAndOnlyClosed ==
    /\ \A j, k \in 1..Len(clicks) : clicks[j].block = clicks[k].block => j = k
    /\ \A k \in 1..Len(clicks) : clicks[k].found = "closed"

\* C20: over all passes of open_toggle_blocks on one page every toggle block
\* is clicked at most once, a block found open (or opening) is never clicked,
\* and no block moves backward from opened or opening to closed.
C20_NeverReprocessesOpenedBlock ==
    /\ []ClickedOnceAndOnlyClosed
    /\ [][MovesForward]_vars

\* a later pass has opened a nested block, after the pass before it clicked
\* the outer one, which the later pass came across again
C20_Witness ==
    /\ toggle_loop.pc = "done"
    /\ Len(toggle_dom.state) = 2
    /\ toggle_dom.parent[2] = 1
    /\ Len(toggle_loop.toggle_blocks) = 2
    /\ Len(clicks) = 2
    /\ clicks[1].block = 1
    /\ clicks[2].block = 2

\* the steps of open_toggle_blocks itself; the page's content loads when it
\* loads
ToggleSteps == FindToggleBlocks \/ OpenToggle \/ CheckNested

\* open_toggle_blocks always takes its next step
FairSpecToggles == SpecToggles /\ WF_vars(ToggleSteps)

\* a wait on a toggle block has ended with a timeout or another exception
SomeWaitFailed == \E k \in 1..Len(clicks) : clicks[k].wait # "opened"

FailedWaitsRecovered ==
    /\ toggle_loop.pc # "raised"
    /\ \A k \in 1..Len(clicks) :
          clicks[k].wait # "opened" =>
             /\ clicks[k].logged \in {"warning", "error"}
             /\ ElementId(toggle_dom, clicks[k].block) \in Range(opened_toggles)
    /\ toggle_loop.pc \in {"again", "done"} =>
          toggle_loop.i > Len(toggle_loop.toggle_blocks)

\* C21: a timeout or another exception of the wait on one toggle block is
\* logged, the block is appended to opened_toggles, the other blocks of the
\* pass are still gone through, and open_toggle_blocks returns to parse_page.
C21_ToggleWaitFailureNotFatal ==
    /\ []FailedWaitsRecovered
    /\ (SomeWaitFailed ~> toggle_loop.pc = "done")

\* the wait on the first block timed out, the pass went on to click a second
\* block, and open_toggle_blocks has returned
C21_Witness ==
    /\ toggle_loop.pc = "done"
    /\ Len(clicks) >= 2
    /\ clicks[1].wait = "timeout"
    /\ clicks[1].logged = "warning"
    /\ clicks[2].block # clicks[1].block
    /\ toggle_dom.parent[clicks[2].block] = 0

-----------------------------------------------------------------------------
\* The waits of the engine on an external party: the readiness wait of load,
\* the wait on a clicked toggle block, the download of cache_file.
\*
\* Time is counted in ticks while a wait is under way. The external party may
\* answer at any tick, or never.

MaxTicks == 2
MaxWaits == 2

WaitKinds == {"load", "toggle", "fetch"}

\* WebDriverWait(self.driver, 60) and WebDriverWait(self.driver, timeout) give
\* up after their time; session.get(url) is called without a timeout
Bounded(kind) == kind \in {"load", "toggle"}

\* the ticks a wait of this kind lasts at most: the fixed time of load, the
\* --timeout argument for a toggle block
Limit(kind, timeout) ==
    IF kind = "load" THEN MaxTicks
    ELSE IF kind = "toggle" THEN timeout ELSE 0

\* how a wait of this kind ends when its time is up: load lets the
\* TimeoutException through, open_toggle_blocks catches it
Expired(kind) == IF kind = "load" THEN "raised" ELSE "timed_out"

InitWaits ==
    /\ config = [site |-> EmptyTable, pages |-> EmptyTable]
    /\ site0 = config.site
    /\ ConfigIdle /\ CacheIdle /\ CrawlIdle /\ PageIdle /\ LinkIdle
    /\ ExportIdle /\ InjectIdle /\ ReadyIdle /\ ToggleIdle /\ MetaIdle
    /\ wait_op = NoWait
    /\ wait_log = <<>>

WaitOthersUnchanged ==
    UNCHANGED <<cfg_vars, cache_vars, crawl_vars, page_vars, link_vars,
                export_vars, inject_vars, ready_vars, toggle_vars, meta_vars>>

\* the engine begins a wait: lines 759, 342, 175
BeginWait ==
    /\ wait_op.state = "idle"
    /\ Len(wait_log) < MaxWaits
    /\ \E kind \in WaitKinds, timeout \in 1..MaxTicks :
          wait_op' = [kind |-> kind, state |-> "waiting", elapsed |-> 0,
                      bounded |-> Bounded(kind), limit |-> Limit(kind, timeout)]
    /\ UNCHANGED wait_log
    /\ WaitOthersUnchanged

\* the external party answers: the page is ready, the block has opened, the
\* response has arrived or the connection has failed
Answer ==
    /\ wait_op.state = "waiting"
    /\ \E outcome \in {"answered", "failed"} :
          /\ outcome = "failed" => wait_op.kind = "fetch"
          /\ wait_log' = Append(wait_log, [kind |-> wait_op.kind, outcome |-> outcome])
    /\ wait_op' = NoWait
    /\ WaitOthersUnchanged

\* time passes
Tick ==
    /\ wait_op.state = "waiting"
    /\ wait_op.elapsed < MaxTicks
    /\ wait_op' = [wait_op EXCEPT !.elapsed = @ + 1]
    /\ UNCHANGED wait_log
    /\ WaitOthersUnchanged

\* the time of a bounded wait is up
Expire ==
    /\ wait_op.state = "waiting"
    /\ wait_op.bounded
    /\ wait_op.elapsed >= wait_op.limit
    /\ wait_log' = Append(wait_log, [kind |-> wait_op.kind,
                                     outcome |-> Expired(wait_op.kind)])
    /\ wait_op' = NoWait
    /\ WaitOthersUnchanged

NextWaits == BeginWait \/ Answer \/ Tick \/ Expire

SpecWaits == InitWaits /\ [][NextWaits]_vars

\* time passes and the engine takes its steps; nothing makes the external
\* party answer
FairSpecWaits == SpecWaits /\ WF_vars(Tick) /\ WF_vars(Expire) /\ WF_vars(BeginWait)

\* C22: every wait of the engine on an external party ends, answered or timed
\* out or failed, even if the external party never answers.
C22_EveryWaitEnds == (wait_op.state = "waiting") ~> (wait_op.state = "idle")

\* the bounded waits do end
C22_BoundedWaitsEnd ==
    (wait_op.state = "waiting" /\ wait_op.bounded) ~> (wait_op.state = "idle")

\* a download that has waited as long as the longest bounded wait lasts
C22_FetchStillWaiting ==
    /\ wait_op.kind = "fetch"
    /\ wait_op.state = "waiting"
    /\ wait_op.elapsed = MaxTicks

\* the blocks in the page that the pass under way did not go through
UnknownBlocks ==
    Range(ToggleBlocks(toggle_dom)) \ Range(toggle_loop.toggle_blocks)

\* the block was found with a rotated arrow, or was clicked and appended to
\* opened_toggles, whether it opened in time or not
Handled(b) ==
    toggle_dom.arrow[b] \/ ElementId(toggle_dom, b) \in Range(opened_toggles)

\* the step that ends a pass: with unknown blocks in the page another pass
\* follows; open_toggle_blocks returns with every block of the page handled
PassEnds ==
    (toggle_loop.pc = "loop" /\ toggle_loop'.pc \in {"again", "done"}) =>
        /\ UnknownBlocks # {} => toggle_loop'.pc = "again"
        /\ toggle_loop'.pc = "done" =>
              \A b \in Range(ToggleBlocks(toggle_dom)) : Handled(b)

\* C24: a re-scan that finds toggle blocks the pass did not know starts
\* another pass; when open_toggle_blocks returns, every toggle block in the
\* page was found open, or clicked, or recorded as opened; and it returns.
C24_PassesUntilFixpoint ==
    /\ [][PassEnds]_vars
    /\ <>(toggle_loop.pc = "done")

\* open_toggle_blocks has returned after a pass that found the block nested
\* in one whose wait had timed out and whose content arrived later
C24_Witness ==
    /\ toggle_loop.pc = "done"
    /\ Len(toggle_dom.state) = 2
    /\ toggle_dom.parent[2] = 1
    /\ Len(clicks) = 2
    /\ clicks[1].block = 1
    /\ clicks[1].wait = "timeout"
    /\ clicks[2].block = 2
    /\ toggle_dom.state[2] = "opened"

-----------------------------------------------------------------------------
\* The meta tags of a page: clean_up and set_custom_meta_tags
\*
\* A meta tag is [attr, key, origin]: it holds the attribute attr ("name" or
\* "property") with the value key, and comes from the rendered page or from
\* the "meta" list of the configuration.

MaxMetas == 3
MaxCustomMetas == 1

\* names and properties of the two lists of clean_up (lines 400-423), and one
\* that is in neither
UnwantedNames == <<"description", "twitter:card">>
UnwantedProperties == <<"og:title">>
MetaKeys == {"description", "og:title", "viewport"}

PageMetas == [attr : {"name", "property"}, key : MetaKeys, origin : {"page"}]
CustomMetas == [attr : {"name", "property"}, key : MetaKeys, origin : {"custom"}]

\* configurations with a "meta" list for the site or for page a, or none
MetaConfigs ==
    {[site |-> EmptyTable, pages |-> EmptyTable]}
    \cup {[site |-> [k \in {"meta"} |-> c], pages |-> EmptyTable] :
             c \in UNION {[1..n -> CustomMetas] : n \in 1..MaxCustomMetas}}
    \cup {[site |-> EmptyTable, pages |-> [p \in {<<"a">>} |-> [k \in {"meta"} |-> c]]] :
             c \in UNION {[1..n -> CustomMetas] : n \in 1..MaxCustomMetas}}

\* the position of the first tag of the list with this attribute and value,
\* 0 if there is none: soup.find("meta", attrs={attr: key})
FindMeta(tags, attr, key) ==
    IF \E k \in 1..Len(tags) : tags[k].attr = attr /\ tags[k].key = key
    THEN CHOOSE k \in 1..Len(tags) :
            /\ tags[k].attr = attr /\ tags[k].key = key
            /\ \A j \in 1..(k - 1) : ~(tags[j].attr = attr /\ tags[j].key = key)
    ELSE 0

\* lines 410-412 and 421-423: find the tag, and decompose it if there is one
Decompose(tags, attr, key) ==
    LET k == FindMeta(tags, attr, key)
    IN  IF k = 0 THEN tags
        ELSE SubSeq(tags, 1, k - 1) \o SubSeq(tags, k + 1, Len(tags))

RECURSIVE DecomposeEach(_, _, _)
\* the for loops of lines 400-423 over one list of names
DecomposeEach(tags, attr, keys) ==
    IF keys = <<>> THEN tags
    ELSE DecomposeEach(Decompose(tags, attr, Head(keys)), attr, Tail(keys))

\* clean_up, lines 399-423: the meta tags it leaves
CleanUpMetas(tags) ==
    DecomposeEach(DecomposeEach(tags, "name", UnwantedNames),
                  "property", UnwantedProperties)

\* set_custom_meta_tags, lines 425-434: the meta tags after the appends
SetCustomMetaTags(tags, cfg, url) == tags \o Get(GetPageConfig(cfg, url), "meta")

InitMeta ==
    /\ config \in MetaConfigs
    /\ site0 = config.site
    /\ ConfigIdle /\ CacheIdle /\ CrawlIdle /\ PageIdle /\ LinkIdle
    /\ ExportIdle /\ InjectIdle /\ ReadyIdle /\ ToggleIdle /\ BoundIdle
    /\ metas0 \in UNION {[1..n -> PageMetas] : n \in 0..MaxMetas}
    /\ metas = metas0
    /\ meta_step = "idle"

MetaOthersUnchanged ==
    UNCHANGED <<cache_vars, crawl_vars, page_vars, link_vars, export_vars,
                inject_vars, ready_vars, toggle_vars, bound_vars>>

\* parse_page, line 276: self.clean_up(soup)
clean_up ==
    /\ meta_step = "idle"
    /\ metas' = CleanUpMetas(metas)
    /\ meta_step' = "cleaned"
    /\ UNCHANGED <<metas0, cfg_vars>>
    /\ MetaOthersUnchanged

\* parse_page, line 277: self.set_custom_meta_tags(url, soup)
set_custom_meta_tags ==
    /\ meta_step = "cleaned"
    /\ metas' = SetCustomMetaTags(metas, config, index_url)
    /\ config' = ConfigAfterCall(config)
    /\ meta_step' = "set"
    /\ UNCHANGED <<metas0, site0, token, call, matching, resolved, extension, slug_out>>
    /\ MetaOthersUnchanged

NextMeta == clean_up \/ set_custom_meta_tags

SpecMeta == InitMeta /\ [][NextMeta]_vars

\* the tag is one clean_up is to remove
Unwanted(tag) ==
    \/ tag.attr = "name" /\ tag.key \in Range(UnwantedNames)
    \/ tag.attr = "property" /\ tag.key \in Range(UnwantedProperties)

\* every custom meta tag of the page's configuration is in the document
CustomMetasPresent ==
    \A c \in Range(Get(GetPageConfig(config, index_url), "meta")) :
        c \in Range(metas)

\* C29 as stated: after the two passes no meta tag of the rendered page whose
\* name or property is in the lists remains, however many tags of one name
\* the page had, and every custom meta tag is there, one of a stripped name
\* included.
C29_StripThenAppend ==
    meta_step = "set" =>
        /\ \A k \in 1..Len(metas) : ~(metas[k].origin = "page" /\ Unwanted(metas[k]))
        /\ CustomMetasPresent

\* What holds of C29: the first tag of every listed name or property is
\* removed, so that a name the page had once is gone; the custom tags are
\* appended after the removal.
C29_FirstOfEachNameStripped ==
    meta_step = "set" =>
        /\ \A k \in 1..Len(metas0) :
              (Unwanted(metas0[k])
                 /\ FindMeta(metas0, metas0[k].attr, metas0[k].key) = k)
              => Cardinality({j \in 1..Len(metas) :
                                 metas[j] = metas0[k]})
                 = Cardinality({j \in 1..Len(metas0) : metas0[j] = metas0[k]}) - 1
        /\ CustomMetasPresent

\* the rendered page had two description tags; a custom description tag was
\* appended and one description tag of the page is still there
C29_SecondDescriptionLeft ==
    /\ meta_step = "set"
    /\ Len(metas0) = 2
    /\ \A k \in 1..2 : metas0[k] = [attr |-> "name", key |-> "description", origin |-> "page"]
    /\ metas = <<[attr |-> "name", key |-> "description", origin |-> "page"],
                 [attr |-> "name", key |-> "description", origin |-> "custom"]>>

-----------------------------------------------------------------------------
\* Toggle expansion over the pages of a run: every parse_page calls
\* open_toggle_blocks(timeout) without an exclude list (line 271), so that
\* exclude is the list object that `exclude=[]` made when the function was
\* defined, and opened_toggles is that object.

MaxRenders == 2

\* parse_page of the next page, lines 259-271: the page renders and
\* open_toggle_blocks is called; the appends of the calls before went to the
\* default list, which is what exclude is again
NextRender ==
    /\ toggle_loop.pc = "done"
    /\ toggle_dom.page < MaxRenders
    /\ \E d \in TogglePages : toggle_dom' = [d EXCEPT !.page = toggle_dom.page + 1]
    /\ toggle_loop' = [toggle_blocks |-> <<>>, i |-> 1, pc |-> "idle"]
    /\ clicks' = <<>>
    /\ UNCHANGED opened_toggles
    /\ ToggleOthersUnchanged

NextRenders ==
    \/ FindToggleBlocks
    \/ OpenToggle
    \/ ContentLoads
    \/ CheckNested
    \/ NextRender

SpecRenders == InitToggles /\ [][NextRenders]_vars

\* C30 as stated: every call of open_toggle_blocks made by parse_page starts
\* with an empty opened_toggles: no block recorded for a page is in the
\* record with which a later page starts.
C30_EachPageStartsEmpty == toggle_loop.pc = "idle" => opened_toggles = <<>>

\* the second page is about to be gone through with a block of the first
\* page in opened_toggles
C30_LeftoverFromFirstPage ==
    /\ toggle_loop.pc = "idle"
    /\ toggle_dom.page = 2
    /\ \E k \in 1..Len(opened_toggles) : opened_toggles[k] <= MaxBlocks

=============================================================================
